---- MODULE Spec2Model ----
(***************************************************************************)
(* Model of the database comparison page of Skyperious (MergerPage in     *)
(* src/src/skyperious.py): two Skype databases, the cached comparison      *)
(* result, the chat diff that is open, and the handlers that scan, swap    *)
(* and merge.  Side indexes are 1 (left, Python index 0) and 2 (right,     *)
(* Python index 1).  A row id of 0 stands for None.                        *)
(***************************************************************************)
EXTENDS Integers, Sequences, FiniteSets, TLC

(* ---------------------------------------------------------------------- *)
(* Bounds and value sets                                                   *)
(* ---------------------------------------------------------------------- *)
MaxOps == 4
MaxFail == 1
MaxQueue == 1
MaxPages == 2

(* SQLite takes up to 999 parameters in one statement *)
MaxParams == 999

(* the longest list of message ids *)
MaxIds == 2500

(* the most units (conversations) of one job *)
MaxUnits == 25

Identities == {"a", "b"}
Sigs == {1, 2}
SigCount == Cardinality(Sigs)
RowIds == {1, 2}
ContactIds == {"x", "y"}
GroupNames == {"g"}
Owner == "me"
Handles == {1, 2}
Files == {"f1", "f2", "f3"}
Pages == 1..MaxPages
NoFile == ""
Sides == {1, 2}
None == 0
NoStat == -1

Other(s) == 3 - s

(* ---------------------------------------------------------------------- *)
(* Generic helpers                                                         *)
(* ---------------------------------------------------------------------- *)
Max(S) == CHOOSE x \in S : \A y \in S : y <= x

Min(S) == CHOOSE x \in S : \A y \in S : x <= y

RECURSIVE SortedSeq(_)
SortedSeq(S) == IF S = {} THEN <<>> ELSE <<Min(S)>> \o SortedSeq(S \ {Min(S)})

Range(s) == {s[i] : i \in 1..Len(s)}

RECURSIVE SeqSum(_)
SeqSum(s) == IF s = <<>> THEN 0 ELSE Head(s) + SeqSum(Tail(s))

RECURSIVE FilterSeq(_, _)
FilterSeq(s, T) ==
    IF s = <<>> THEN <<>>
    ELSE (IF Head(s) \in T THEN <<Head(s)>> ELSE <<>>) \o FilterSeq(Tail(s), T)

RemoveAt(s, i) == SubSeq(s, 1, i - 1) \o SubSeq(s, i + 1, Len(s))

Timestamp(sig) == sig

(* ---------------------------------------------------------------------- *)
(* The database access layer (skypedata.SkypeDatabase).  A database is a  *)
(* record of tables; every table is a set of rows.                         *)
(*   convs    : [id, identity]                                             *)
(*   msgs     : [id, convo, sig]   sig = (author, timestamp, body)         *)
(*   parts    : [convo, identity]                                          *)
(*   contacts : [id, identity]                                             *)
(*   groups   : [name, members]    members: the identities, as stored      *)
(* ---------------------------------------------------------------------- *)
NextId(rows) == IF rows = {} THEN 1 ELSE Max({r.id : r \in rows}) + 1

RowsById(rows) ==
    LET ids == SortedSeq({r.id : r \in rows})
    IN [i \in 1..Len(ids) |-> CHOOSE r \in rows : r.id = ids[i]]

get_conversations(D) == RowsById(D.convs)

get_contacts(D) == RowsById(D.contacts)

ContactIdentities(D) == {c.identity : c \in D.contacts}

(* dict((c["identity"], c) for c in rows): the last row of an identity wins *)
IdentityMap(rows, ident) ==
    LET same == {r \in rows : r.identity = ident}
    IN IF same = {} THEN None ELSE Max({r.id : r \in same})

MessageCount(D, convo) == Cardinality({m \in D.msgs : m.convo = convo})

LastMessageDatetime(D, convo) ==
    LET ms == {m \in D.msgs : m.convo = convo}
    IN IF ms = {} THEN NoStat ELSE Max({Timestamp(m.sig) : m \in ms})

(* get_messages(additional_sql="id IN (...)"): the rows with these ids *)
get_messages(D, ids) ==
    LET found == {m \in D.msgs : m.id \in ids}
        rows == RowsById(found)
    IN [i \in 1..Len(rows) |-> [id |-> rows[i].id, sig |-> rows[i].sig, rec |-> TRUE]]

insert_chat(D, identity) ==
    [D EXCEPT !.convs = @ \cup {[id |-> NextId(D.convs), identity |-> identity]}]

RECURSIVE insert_messages(_, _, _)
insert_messages(D, convo, items) ==
    IF items = <<>> THEN D
    ELSE insert_messages(
            [D EXCEPT !.msgs = @ \cup {[id |-> NextId(D.msgs), convo |-> convo,
                                        sig |-> Head(items).sig]}],
            convo, Tail(items))

insert_participants(D, convo, participants) ==
    [D EXCEPT !.parts = @ \cup {[convo |-> convo, identity |-> p.identity] :
                                 p \in participants}]

RECURSIVE insert_contacts(_, _)
insert_contacts(D, identities) ==
    IF identities = <<>> THEN D
    ELSE insert_contacts(
            [D EXCEPT !.contacts = @ \cup {[id |-> NextId(D.contacts),
                                            identity |-> Head(identities)]}],
            Tail(identities))

replace_contactgroups(D, gs) ==
    [D EXCEPT !.groups = {g \in @ : \A n \in gs : n.name # g.name}
                          \cup {[name |-> n.name, members |-> n.members] : n \in gs}]

(* ---------------------------------------------------------------------- *)
(* workers.MergeThread.get_chat_diff: the per-conversation differ.         *)
(* ---------------------------------------------------------------------- *)
ConvRows(D, ident) == {c.id : c \in {r \in D.convs : r.identity = ident}}

MsgsOf(D, ident) == {m \in D.msgs : m.convo \in ConvRows(D, ident)}

PartsOf(D, ident) == {p.identity : p \in {q \in D.parts : q.convo \in ConvRows(D, ident)}}

BareIds(ids) == [i \in 1..Len(ids) |-> [id |-> ids[i], sig |-> 0, rec |-> FALSE]]

MissingMessages(Dsrc, Dtgt, ident) ==
    LET theirs == {m.sig : m \in MsgsOf(Dtgt, ident)}
    IN BareIds(SortedSeq({m.id : m \in {n \in MsgsOf(Dsrc, ident) : n.sig \notin theirs}}))

MissingParticipants(Dsrc, Dtgt, ident) ==
    {[identity |-> p, hasContact |-> p \in ContactIdentities(Dsrc)] :
        p \in PartsOf(Dsrc, ident) \ PartsOf(Dtgt, ident)}

get_chat_diff(ident, D1, D2) ==
    [messages |-> <<MissingMessages(D1, D2, ident), MissingMessages(D2, D1, ident)>>,
     participants |-> <<MissingParticipants(D1, D2, ident),
                        MissingParticipants(D2, D1, ident)>>]

EmptyDiff == [messages |-> << <<>>, <<>> >>, participants |-> << {}, {} >>]

(* ---------------------------------------------------------------------- *)
(* State of one MergerPage, its two databases and its worker thread.       *)
(* ---------------------------------------------------------------------- *)
VARIABLES
    db,               \* handle -> database contents
    left,             \* the handle held in self.db1 (self.db2 is the other)
    pc,               \* "new" before load_data, then "loaded"
    compared,         \* self.compared, list of chat entries
    chat_diff,        \* self.chat_diff, index into compared or None
    chat_diff_data,   \* self.chat_diff_data, key of a diff object or "none"
    diffs,            \* the diff objects, by key (aliased by entries)
    chats_differing,  \* self.chats_differing, <<>> for None
    con_diff,         \* <<self.con1diff, self.con2diff>>
    congroup_diff,    \* <<self.congroup1diff, self.congroup2diff>>
    con_difflist,     \* <<self.con1difflist, self.con2difflist>>
    list_contacts,    \* items shown in list_contacts1 / list_contacts2
    diffresults_info, \* self.diffresults_info, <<>> for None
    note,             \* button_mergeall1/2 .Note is non-empty
    enabled,          \* Enabled flag of the controls
    is_merging,       \* self.is_merging
    worker,           \* the job worker_merge is running
    queue,            \* results posted by the worker, not yet handled
    later,            \* number of pending wx.CallLater(load_later_data)
    fails,            \* number of database errors still to be injected
    ops,              \* number of user operations still allowed
    htmls,            \* conversations linked in html_results1 / html_results2
    stale,            \* handles written to since their last clear_cache
    hist              \* the last handler and what it did, for the properties

(* State of the MainWindow that owns the pages. *)
VARIABLES
    dbs,              \* self.dbs: the file names of the open databases
    db_pages,         \* self.db_pages: page -> file name, NoFile if no such page
    merger_pages,     \* self.merger_pages: page -> <<file1, file2>>, <<>> if none
    consumers,        \* the registered consumers of the database of each file
    ready_to_close,   \* the pages whose ready_to_close is set
    callafter,        \* the pages with a pending wx.CallAfter(update_tabheader)
    closing           \* what the last on_close_page closed and the page the last
                      \* compare_databases found, for the properties

page_vars == <<db, left, pc, compared, chat_diff, chat_diff_data, diffs,
               chats_differing, con_diff, congroup_diff, con_difflist,
               list_contacts, diffresults_info, note, enabled, is_merging, worker,
               queue, later, fails, ops, htmls, stale, hist>>

window_vars == <<dbs, db_pages, merger_pages, consumers, ready_to_close, callafter,
                 closing>>

(* One run of the retrieval loop of on_change_list_chats over a long list. *)
VARIABLES
    msg_ids,          \* ids: the ids of the missing messages of one side
    queries,          \* params of the get_messages calls issued, in order
    msg_rows,         \* diff["messages"][i] as the loop leaves it
    resolved          \* whether the loop has run

(* One progress result and the gauge it is shown on. *)
VARIABLES
    progress,         \* result["index"] and the count of units it is set against
    gauge             \* the gauge, its Value and the "x of n" of its message
                      \* after update_gauge

calc_vars == <<msg_ids, queries, msg_rows, resolved, progress, gauge>>

(* what the handlers of one MergerPage leave alone *)
other_vars == <<window_vars, calc_vars>>

vars == <<page_vars, other_vars>>

(* the page whose MergerPage object the page variables describe *)
ThisPage == Min(Pages)

(* a handler that ends without the call *)
NoCallAfter(calls, page) == calls

(* wx.CallAfter(self.update_tabheader) *)
CallAfter(calls, page) == calls \cup {page}

Db1 == left
Db2 == Other(left)
DbOf(side) == IF side = 1 THEN Db1 ELSE Db2

DiffKeys == Identities \cup {"fresh"}

(* "chat_items" is not an Enabled flag: it tells whether list_chats shows the
   compared conversations (Populate) or nothing (ClearAll) *)
Controls == {"swap", "scan", "mergeall1", "mergeall2", "page_chats",
             "page_contacts", "list_chats", "merge_chat1", "merge_chat2",
             "allcontacts1", "allcontacts2", "chat_items"}

(* a page created with every control enabled *)
InitEnabledAll == [c \in Controls |-> TRUE]

(* MergerPage.__init__ and create_page_*: initial control states *)
InitEnabled == [c \in Controls |-> c \in {"page_chats", "page_contacts"}]

(* what the controls let the user start: a click reaches its handler only if
   the control and the page it sits on are enabled *)
CanSwap == pc = "loaded" /\ enabled["swap"]

CanScanAll == pc = "loaded" /\ enabled["scan"]

CanMergeAll(source) ==
    pc = "loaded" /\ enabled[IF source = 1 THEN "mergeall1" ELSE "mergeall2"]

CanChangeListChats ==
    pc = "loaded" /\ enabled["list_chats"] /\ enabled["page_chats"] /\ enabled["chat_items"]

(* if chat and self.page_merge_chats.Enabled *)
CanClickHtmldiff(identity) ==
    pc = "loaded" /\ identity \in htmls[1] \cup htmls[2] /\ enabled["page_chats"]

CanMergeChat(source) ==
    /\ pc = "loaded"
    /\ enabled[IF source = 1 THEN "merge_chat1" ELSE "merge_chat2"]
    /\ enabled["page_chats"]
    /\ chat_diff # None

CanMergeContacts(source) ==
    pc = "loaded" /\ enabled["page_contacts"] /\ list_contacts[source] # <<>>

NoJob == [type |-> "idle"]

(* db.clear_cache(): the cached statistics of handle h are dropped *)
clear_cache(S, h) == S \ {h}

(* a write to handle h leaves its cached statistics behind *)
Written(S, h, before, after) == IF before # after THEN S \cup {h} ELSE S

NoLookup == [chat |-> "", found |-> {}]

(* how far a merge-all, scan, merge-all sequence from handle src has come:
   1 first merge-all running, 2 completed without error, 3 scanning again,
   4 scanned, 5 second merge-all running, 6 completed; base holds the target
   database as the second merge-all found it *)
NoRun == [stage |-> 0, src |-> 0, base |-> <<>>]

(* the conversations a merge has copied completely, and the side they came from *)
NoMerged == [side |-> 0, chats |-> {}]

(* last: the last handler; swaps: how many on_swap ran in a row; snap, snap2:
   the comparison result before the last and the last but one of them;
   oneway: no on_swap has run and every merge went from handle 1 to handle 2;
   calls: the database writes of the last on_merge_chat; lookup: the cache
   lookup of the last on_change_list_chats; removal: the entries the last
   on_merge_chat took out of chats_differing; idem: see NoRun; merged: what
   the last on_merge_chat, on_merge_contacts or merge-all job has copied;
   staleread: the handles whose statistics the last handler read although
   they were written to after their last clear_cache; failed: a unit of the
   merge-all job that ran last has failed; steps: the insertion steps the
   last on_merge_chat or on_merge_contacts attempted, in order; raised: the
   step among them that raised, or "none"; unit: the contacts-and-groups unit
   of the last on_merge_contacts, see NoUnit; received: for each side the
   entries of the results handled since the last on_scan_all, in the order
   they arrived *)
NoUnit == [target |-> 0, groups |-> <<>>, ids |-> <<>>, before |-> {}]

NoReceived == << <<>>, <<>> >>

InitHist == [last |-> "init", swaps |-> 0, snap |-> <<>>, snap2 |-> <<>>,
             oneway |-> TRUE, calls |-> <<>>, lookup |-> NoLookup,
             removal |-> NoLookup, idem |-> NoRun, merged |-> NoMerged,
             staleread |-> {}, failed |-> FALSE, steps |-> <<>>,
             raised |-> "none", unit |-> NoUnit, received |-> NoReceived]

(* the history after a handler other than on_swap has run *)
Did(name) == [hist EXCEPT !.last = name, !.swaps = 0, !.snap = <<>>, !.snap2 = <<>>,
                          !.calls = <<>>, !.lookup = NoLookup, !.removal = NoLookup,
                          !.merged = IF worker # <<>> \/ queue # <<>> THEN @ ELSE NoMerged,
                          !.staleread = {},
                          !.failed = IF worker # <<>> \/ queue # <<>> THEN @ ELSE FALSE,
                          !.steps = <<>>, !.raised = "none", !.unit = NoUnit,
                          !.received = IF worker # <<>> \/ queue # <<>> THEN @
                                       ELSE NoReceived]

(* ---------------------------------------------------------------------- *)
(* Initial databases                                                       *)
(* ---------------------------------------------------------------------- *)
MsgId(row, sig) == (row - 1) * SigCount + sig

MakeDb(rowOf, sigsOf, partsOf, cons, grps) ==
    LET present == {i \in Identities : rowOf[i] # None}
        conList == SortedSeq({IF c = "x" THEN 1 ELSE 2 : c \in cons})
    IN [convs |-> {[id |-> rowOf[i], identity |-> i] : i \in present},
        msgs |-> UNION {{[id |-> MsgId(rowOf[i], s), convo |-> rowOf[i], sig |-> s] :
                           s \in sigsOf[i]} : i \in present},
        parts |-> UNION {{[convo |-> rowOf[i], identity |-> p] : p \in partsOf[i]} :
                           i \in present},
        contacts |-> {[id |-> k, identity |-> IF conList[k] = 1 THEN "x" ELSE "y"] :
                           k \in 1..Len(conList)},
        groups |-> grps]

RowAssignments ==
    {f \in [Identities -> RowIds \cup {None}] :
        \A i, j \in Identities : (i # j /\ f[i] # None) => f[i] # f[j]}

PerChat(r, S) ==
    {g \in [Identities -> S] : \A i \in Identities : r[i] = None => g[i] = {}}

NoParts == [i \in Identities |-> {}]

(* left: conversation "a" in row 1 with a message, possibly "b" as well *)
LeftChatDbs ==
    UNION {{MakeDb(r, m, NoParts, {}, {}) :
                m \in {g \in PerChat(r, {{}, {1}, {2}, {1, 2}}) :
                          g["a"] \in {{1}, {1, 2}} /\ g["b"] \in {{}, {2}}
                          /\ (r["b"] # None => g["b"] # {})}} :
           r \in {f \in RowAssignments : f["a"] = 1}}

(* right: any conversations in any rows, one message in each *)
RightChatDbs ==
    UNION {{MakeDb(r, m, NoParts, {}, {}) :
                m \in {g \in PerChat(r, {{}, {1}, {2}}) :
                          /\ (r["a"] # None => g["a"] # {})
                          /\ (r["b"] # None => g["b"] = {2})}} :
           r \in RowAssignments}

(* databases with participants, contacts and contact groups *)
People == ContactIds \cup {Owner}

LeftPeopleDbs ==
    {MakeDb([i \in Identities |-> IF i = "a" THEN 1 ELSE None],
            [i \in Identities |-> IF i = "a" THEN {1} ELSE {}],
            [i \in Identities |-> IF i = "a" THEN People ELSE {}],
            cons, grps) :
        cons \in {{"x"}},
        grps \in {{}, {[name |-> "g", members |-> <<"x">>]}}}

RightPeopleDbs ==
    {MakeDb([i \in Identities |-> IF i = "a" THEN row ELSE None],
            [i \in Identities |-> IF i = "a" /\ row # None THEN {2} ELSE {}],
            [i \in Identities |-> IF i = "a" /\ row # None THEN {Owner} ELSE {}],
            cons, grps) :
        row \in {None, 2},
        cons \in {{"y"}},
        grps \in {{}, {[name |-> "g", members |-> <<>>]}}}

(* databases without conversations whose contact group lists its members in
   one order or the other *)
NoChats == [i \in Identities |-> None]

NoSigs == [i \in Identities |-> {}]

GroupDbs(cons) ==
    {MakeDb(NoChats, NoSigs, NoParts, cons, grps) :
        grps \in {{}} \cup {{[name |-> "g", members |-> mm]} :
                                mm \in {<<"x">>, <<"x", "y">>, <<"y", "x">>}}}

(* a database without conversations whose contact groups g and h both list
   contact x *)
SharedGroupDbs(cons) ==
    {MakeDb(NoChats, NoSigs, NoParts, cons, grps) :
        grps \in {{[name |-> "g", members |-> <<"x">>],
                   [name |-> "h", members |-> mm]} : mm \in {<<"x">>, <<"x", "y">>}}}

(* ---------------------------------------------------------------------- *)
(* load_data: pairs the conversations of the two databases by identity.    *)
(* ---------------------------------------------------------------------- *)
Entry(identity, id, c1, c2) ==
    [identity |-> identity, id |-> id, c |-> <<c1, c2>>,
     messages |-> <<NoStat, NoStat>>, last |-> <<NoStat, NoStat>>,
     diff_status |-> "none"]

(* load_data without its second loop, over chats2 *)
PairChatsLeftOnly(D1, D2) ==
    LET chats1 == get_conversations(D1)
    IN [i \in 1..Len(chats1) |->
            Entry(chats1[i].identity, chats1[i].id, chats1[i].id,
                  IdentityMap(D2.convs, chats1[i].identity))]

PairChats(D1, D2) ==
    LET chats1 == get_conversations(D1)
        chats2 == get_conversations(D2)
        only2 == FilterSeq(chats2,
                    {c \in D2.convs : IdentityMap(D1.convs, c.identity) = None})
    IN [i \in 1..Len(chats1) |->
            Entry(chats1[i].identity, chats1[i].id, chats1[i].id,
                  IdentityMap(D2.convs, chats1[i].identity))]
       \o [i \in 1..Len(only2) |->
            Entry(only2[i].identity, only2[i].id, None, only2[i].id)]

load_data ==
    /\ pc = "new"
    /\ compared' = PairChats(db[Db1], db[Db2])
    /\ later' = later + 1
    /\ pc' = "loaded"
    /\ enabled' = [enabled EXCEPT !["chat_items"] = TRUE]
    /\ hist' = Did("load_data")
    /\ UNCHANGED <<other_vars, stale, htmls, db, left, chat_diff, chat_diff_data, diffs, chats_differing,
                   con_diff, congroup_diff, con_difflist, list_contacts,
                   diffresults_info, note, is_merging, worker, queue,
                   fails, ops>>

(* ---------------------------------------------------------------------- *)
(* load_later_data: message counts, first-glance status, contact diffs.    *)
(* ---------------------------------------------------------------------- *)
DIFFSTATUS_IDENTICAL == "In sync"
DIFFSTATUS_DIFFERENT == "Out of sync"

SideStat(c, i, D, count) ==
    LET row == IdentityMap(D.convs, c.identity)
    IN IF c.c[i] # None /\ row # None
       THEN (IF count THEN MessageCount(D, row) ELSE LastMessageDatetime(D, row))
       ELSE (IF count THEN c.messages[i] ELSE c.last[i])

IsIdentical(c) ==
    /\ c.c[1] # None
    /\ c.c[2] # None
    /\ c.messages[1] = c.messages[2]
    /\ c.last[1] = c.last[2]

LaterEntry(c, D1, D2) ==
    LET c2 == [c EXCEPT !.messages = <<SideStat(c, 1, D1, TRUE), SideStat(c, 2, D2, TRUE)>>,
                        !.last = <<SideStat(c, 1, D1, FALSE), SideStat(c, 2, D2, FALSE)>>]
    IN [c2 EXCEPT !.diff_status = IF IsIdentical(c2) THEN DIFFSTATUS_IDENTICAL
                                   ELSE DIFFSTATUS_DIFFERENT]

(* load_later_data listing every contact once, whatever the other side has *)
RECURSIVE ContactDiffAll(_, _, _, _)
ContactDiffAll(rows, Dother, side, seen) ==
    IF rows = <<>> THEN <<>>
    ELSE LET r == Head(rows)
             new == r.identity \notin seen
             item == [identity |-> r.identity,
                      c |-> IF side = 1 THEN <<r.id, None>> ELSE <<None, r.id>>]
         IN (IF new THEN <<item>> ELSE <<>>)
            \o ContactDiffAll(Tail(rows), Dother, side,
                              IF new THEN seen \cup {r.identity} ELSE seen)

(* load_later_data leaving the contact that only this side has off the list *)
ContactDiffNone(rows, Dother, side, seen) == <<>>

(* contacts of Dsrc whose identity the other side lacks, each identity once *)
RECURSIVE ContactDiff(_, _, _, _)
ContactDiff(rows, Dother, side, seen) ==
    IF rows = <<>> THEN <<>>
    ELSE LET r == Head(rows)
             new == IdentityMap(Dother.contacts, r.identity) = None
                    /\ r.identity \notin seen
             item == [identity |-> r.identity,
                      c |-> IF side = 1 THEN <<r.id, None>> ELSE <<None, r.id>>]
         IN (IF new THEN <<item>> ELSE <<>>)
            \o ContactDiff(Tail(rows), Dother, side,
                           IF new THEN seen \cup {r.identity} ELSE seen)

GroupNamed(D, name) ==
    LET same == {g \in D.groups : g.name = name}
    IN IF same = {} THEN <<>> ELSE <<(CHOOSE g \in same : TRUE).members>>

GroupOrder(gs) ==
    LET RECURSIVE Seq2(_)
        Seq2(S) == IF S = {} THEN <<>>
                   ELSE LET g == CHOOSE x \in S : TRUE IN <<g>> \o Seq2(S \ {g})
    IN Seq2(gs)

GroupDiff(Dsrc, Dother, side) ==
    LET differing == {g \in Dsrc.groups : GroupNamed(Dother, g.name) # <<g.members>>}
        gs == GroupOrder(differing)
    IN [i \in 1..Len(gs) |->
            [name |-> gs[i].name, members |-> gs[i].members,
             g |-> IF side = 1 THEN << <<gs[i].members>>, GroupNamed(Dother, gs[i].name) >>
                   ELSE << GroupNamed(Dother, gs[i].name), <<gs[i].members>> >>]]

DiffList(cons, cgs) ==
    [i \in 1..Len(cons) |-> [type |-> "Contact", key |-> cons[i].identity, members |-> <<>>]]
    \o [i \in 1..Len(cgs) |-> [type |-> "Group", key |-> cgs[i].name,
                               members |-> cgs[i].members]]

(* load_later_data with the scan button enabled whatever was scanned *)
LaterScanEnabledAlways(was) == TRUE

(* if self.chats_differing is None: self.button_scan_all.Enabled = True *)
LaterScanEnabled(was) == IF chats_differing = <<>> THEN TRUE ELSE was

load_later_data ==
    /\ later > 0
    /\ later' = later - 1
    /\ \E D1 \in {db[Db1]}, D2 \in {db[Db2]} :
       \E con1 \in {ContactDiff(get_contacts(D1), D2, 1, {})},
          con2 \in {ContactDiff(get_contacts(D2), D1, 2, {})},
          cg1 \in {GroupDiff(D1, D2, 1)},
          cg2 \in {GroupDiff(D2, D1, 2)} :
       \E l1 \in {DiffList(con1, cg1)}, l2 \in {DiffList(con2, cg2)} :
          /\ compared' = [i \in 1..Len(compared) |-> LaterEntry(compared[i], D1, D2)]
          /\ con_diff' = <<con1, con2>>
          /\ congroup_diff' = <<cg1, cg2>>
          /\ con_difflist' = <<l1, l2>>
          /\ list_contacts' = <<l1, l2>>
          /\ enabled' = [enabled EXCEPT !["list_chats"] = TRUE,
                                        !["chat_items"] = TRUE,
                                        !["allcontacts1"] = Len(l1) > 0,
                                        !["allcontacts2"] = Len(l2) > 0,
                                        !["swap"] = TRUE,
                                        !["scan"] = LaterScanEnabled(@)]
    (* get_conversations_stats of both databases *)
    /\ hist' = [Did("load_later_data") EXCEPT !.staleread = stale]
    /\ callafter' = CallAfter(callafter, ThisPage)
    /\ UNCHANGED <<dbs, db_pages, merger_pages, consumers, ready_to_close, closing,
                   calc_vars>>
    /\ UNCHANGED <<stale, htmls, db, left, pc, chat_diff, chat_diff_data, diffs,
                   chats_differing, diffresults_info, note, is_merging, worker,
                   queue, fails, ops>>

(* load_data whose database access raises: the except branch *)
load_data_error ==
    /\ pc = "new"
    /\ pc' = "failed"
    /\ callafter' = CallAfter(callafter, ThisPage)
    /\ hist' = Did("load_data_error")
    /\ UNCHANGED <<dbs, db_pages, merger_pages, consumers, ready_to_close, closing,
                   calc_vars>>
    /\ UNCHANGED <<stale, htmls, db, left, compared, chat_diff, chat_diff_data, diffs,
                   chats_differing, con_diff, congroup_diff, con_difflist,
                   list_contacts, diffresults_info, note, enabled, is_merging,
                   worker, queue, later, fails, ops>>

(* load_later_data whose first database access raises: the except branch,
   and the block after it that runs either way *)
load_later_data_error ==
    /\ later > 0
    /\ later' = later - 1
    /\ enabled' = [enabled EXCEPT !["swap"] = TRUE,
                                  !["scan"] = LaterScanEnabled(@)]
    /\ callafter' = CallAfter(callafter, ThisPage)
    /\ hist' = Did("load_later_data_error")
    /\ UNCHANGED <<dbs, db_pages, merger_pages, consumers, ready_to_close, closing,
                   calc_vars>>
    /\ UNCHANGED <<stale, htmls, db, left, pc, compared, chat_diff, chat_diff_data,
                   diffs, chats_differing, con_diff, congroup_diff, con_difflist,
                   list_contacts, diffresults_info, note, is_merging, worker,
                   queue, fails, ops>>

(* ---------------------------------------------------------------------- *)
(* on_change_list_chats: opens the diff of one conversation.               *)
(* ---------------------------------------------------------------------- *)
(* next((c1 for c1 in entries if c1["chat"]["id"] == c["id"]), None) *)
CachedEntry(entries, c) ==
    LET hits == {i \in 1..Len(entries) : entries[i].chat.id = c.id}
    IN IF hits = {} THEN <<>> ELSE <<entries[Min(hits)]>>

CachedDiff(c) ==
    LET data1 == IF chats_differing = <<>> THEN <<>> ELSE CachedEntry(chats_differing[1], c)
        data2 == IF chats_differing = <<>> THEN <<>> ELSE CachedEntry(chats_differing[2], c)
    IN IF data1 # <<>> THEN data1 ELSE data2

AllIds(items) == \A i \in 1..Len(items) : ~items[i].rec

(* [ids[j:j+999] for j in range(0, len(ids), 999)] with slices one id short *)
ChunksShort(ids) ==
    [k \in 1..((Len(ids) + MaxParams - 1) \div MaxParams) |->
        SubSeq(ids, MaxParams * (k - 1) + 1,
               IF MaxParams * k - 1 < Len(ids) THEN MaxParams * k - 1 ELSE Len(ids))]

(* [ids[j:j+999] for j in range(0, len(ids), 999)] *)
Chunks(ids) ==
    [k \in 1..((Len(ids) + MaxParams - 1) \div MaxParams) |->
        SubSeq(ids, MaxParams * (k - 1) + 1,
               IF MaxParams * k < Len(ids) THEN MaxParams * k ELSE Len(ids))]

(* diff["messages"][i] += db.get_messages(...) for every chunk in turn *)
RECURSIVE ChunkedMessages(_, _)
ChunkedMessages(D, chunks) ==
    IF chunks = <<>> THEN <<>>
    ELSE get_messages(D, Range(Head(chunks))) \o ChunkedMessages(D, Tail(chunks))

(* the loop that replaces the ids of side i by the message rows of database i;
   binding a row where an id is expected raises after the list was emptied *)
ResolveSide(st, i, D) ==
    LET ids == st.diff.messages[i]
    IN IF ~st.ok \/ ids = <<>> THEN st
       ELSE IF AllIds(ids)
            THEN [st EXCEPT !.diff.messages[i] =
                     ChunkedMessages(D, Chunks([j \in 1..Len(ids) |-> ids[j].id]))]
            ELSE [st EXCEPT !.diff.messages[i] = <<>>, !.ok = FALSE]

ResolveDiff(diff, D1, D2) ==
    (* filter(lambda x: x[1], enumerate(...)) picks the sides before the loop *)
    LET todo == {i \in Sides : diff.messages[i] # <<>>}
        s0 == [diff |-> diff, ok |-> TRUE]
        s1 == IF 1 \in todo THEN ResolveSide(s0, 1, D1) ELSE s0
        s2 == IF 2 \in todo THEN ResolveSide(s1, 2, D2) ELSE s1
    IN s2

ChangeListChats(k) ==
    /\ ops > 0
    /\ k \in 1..Len(compared)
    /\ IF chat_diff = None THEN TRUE
       ELSE compared[k].identity # compared[chat_diff].identity
    /\ \E c \in {compared[k]} :
       \E cached \in {CachedDiff(c)} :
       \E key \in {IF cached # <<>> THEN cached[1].diff ELSE "fresh"} :
       \E diff \in {IF cached # <<>> THEN diffs[key]
                     ELSE get_chat_diff(c.identity, db[Db1], db[Db2])} :
       \E res \in {ResolveDiff(diff, db[Db1], db[Db2])} :
          /\ diffs' = [diffs EXCEPT ![key] = res.diff]
          /\ hist' = [Did("on_change_list_chats") EXCEPT
                        !.idem = NoRun,
                        !.lookup = [chat |-> c.identity,
                                    found |-> IF cached # <<>>
                                              THEN {cached[1].chat.identity} ELSE {}]]
          /\ IF res.ok
             THEN /\ chat_diff' = k
                  /\ chat_diff_data' = key
                  /\ enabled' = [enabled EXCEPT
                        !["merge_chat1"] = Len(res.diff.messages[1]) > 0,
                        !["merge_chat2"] = Len(res.diff.messages[2]) > 0]
             ELSE UNCHANGED <<chat_diff, chat_diff_data, enabled>>
    /\ ops' = ops - 1
    /\ UNCHANGED <<other_vars, stale, htmls, db, left, pc, compared, chats_differing, con_diff,
                   congroup_diff, con_difflist, list_contacts, diffresults_info,
                   note, is_merging, worker, queue, later, fails>>

on_change_list_chats(k) ==
    /\ CanChangeListChats
    /\ ChangeListChats(k)

(* The same loop over the messages table of a large database.  The table is
   a sequence with the row of id n at position n. *)
MessageTable == [n \in 1..(2 * MaxIds + 2) |-> [id |-> n, sig |-> n, rec |-> TRUE]]

ById(a, b) == a.id < b.id

(* get_messages(additional_sql="id IN (?1, ?2, ...)", additional_params=params):
   the rows whose id is one of the parameters, in the order of the table *)
get_messages_in(table, params) ==
    LET known == SelectSeq(params, LAMBDA x : x \in DOMAIN table)
    IN SortSeq([j \in 1..Len(known) |-> table[known[j]]], ById)

RECURSIVE ChunkedRows(_, _)
ChunkedRows(table, chunks) ==
    IF chunks = <<>> THEN <<>>
    ELSE get_messages_in(table, Head(chunks)) \o ChunkedRows(table, Tail(chunks))

(* the id lists: n ids from first on, every one or every other one *)
IdList(n, first, step) == [i \in 1..n |-> first + (i - 1) * step]

ChunkLengths ==
    {n \in 0..MaxIds : n = MaxIds \/ n % MaxParams \in {0, 1, 2, 500, 997, 998}}

resolve_messages ==
    /\ ~resolved
    /\ \E chunks \in {Chunks(msg_ids)} :
          /\ queries' = chunks
          /\ msg_rows' = ChunkedRows(MessageTable, chunks)
    /\ resolved' = TRUE
    /\ UNCHANGED <<msg_ids, progress, gauge, page_vars, window_vars>>

(* on_click_htmldiff: a link of the diff overview opens the conversation whose
   identity it names *)
on_click_htmldiff(k) ==
    /\ k \in 1..Len(compared)
    /\ CanClickHtmldiff(compared[k].identity)
    /\ ChangeListChats(k)

(* ---------------------------------------------------------------------- *)
(* on_merge_chat: merges the open conversation from one side to the other. *)
(* The handler is threaded through a record:                               *)
(*   D the target database, c the open entry, d the open diff, chat2 the   *)
(*   target row id in use, log the write calls, raised whether a call      *)
(*   raised.  f names the call that is made to fail, or "none".            *)
(* ---------------------------------------------------------------------- *)
SetToSeq(S) ==
    LET RECURSIVE Seq2(_)
        Seq2(T) == IF T = {} THEN <<>>
                   ELSE LET x == CHOOSE y \in T : TRUE IN <<x>> \o Seq2(T \ {x})
    IN Seq2(S)

(* one write call on the target: exists tells whether the target holds the
   row of this conversation when the call is made, who the identities passed,
   stubs those of them the source has no contact row for, known the contacts
   of the target at that moment *)
Call(op, D, convo, ident, participants) ==
    [op |-> op,
     convo |-> convo,
     exists |-> \E r \in D.convs : r.id = convo /\ r.identity = ident,
     who |-> {p.identity : p \in participants},
     stubs |-> {p.identity : p \in {q \in participants : ~q.hasContact}},
     known |-> ContactIdentities(D)]

(* on_merge_chat without the contacts of the new participants *)
NewContactsNone(participants, D2) == {}

(* contacts2: participants with a contact row in the source that the target lacks *)
NewContacts(participants, D2) ==
    {p.identity : p \in {q \in participants :
        q.hasContact /\ q.identity \notin ({Owner} \cup ContactIdentities(D2))}}

MergeChatInsertChat(st, source, f) ==
    LET tgt == Other(source)
    IN IF st.c.c[tgt] # None THEN [st EXCEPT !.chat2 = st.c.c[tgt]]
       ELSE LET copied == [st EXCEPT !.c.c[tgt] = st.c.c[source],
                                     !.chat2 = st.c.c[source],
                                     !.log = Append(@, Call("insert_chat", st.D, None,
                                                            st.c.identity, {}))]
            IN IF f = "insert_chat" THEN [copied EXCEPT !.raised = TRUE]
               ELSE [copied EXCEPT !.D = insert_chat(st.D, st.c.identity),
                                   !.c.c[tgt] = NextId(st.D.convs),
                                   !.chat2 = NextId(st.D.convs)]

MergeChatInsertContacts(st, source, f) ==
    LET contacts2 == NewContacts(st.d.participants[source], st.D)
    IN IF st.raised \/ st.d.participants[source] = {} \/ contacts2 = {} THEN st
       ELSE LET called == [st EXCEPT !.log = Append(@,
                                Call("insert_contacts", st.D, st.chat2, st.c.identity,
                                     {p \in st.d.participants[source] :
                                         p.identity \in contacts2}))]
            IN IF f = "insert_contacts" THEN [called EXCEPT !.raised = TRUE]
               ELSE [called EXCEPT !.D = insert_contacts(st.D, SetToSeq(contacts2))]

MergeChatInsertParticipants(st, source, f) ==
    LET participants == st.d.participants[source]
    IN IF st.raised \/ participants = {} THEN st
       ELSE LET called == [st EXCEPT !.log = Append(@, Call("insert_participants", st.D,
                                    st.chat2, st.c.identity, participants))]
            IN IF f = "insert_participants" THEN [called EXCEPT !.raised = TRUE]
               ELSE [called EXCEPT !.D = insert_participants(st.D, st.chat2, participants),
                                   !.d.participants[source] = {}]

(* on_merge_chat replacing the messages of the target conversation *)
MergeChatInsertMessagesReplacing(st, source, f) ==
    LET messages == st.d.messages[source]
        emptied == [st.D EXCEPT !.msgs = {m \in @ : m.convo # st.chat2}]
    IN IF st.raised \/ messages = <<>> THEN st
       ELSE [st EXCEPT !.D = insert_messages(emptied, st.chat2, messages),
                       !.d.messages[source] = <<>>]

MergeChatInsertMessages(st, source, f) ==
    LET messages == st.d.messages[source]
    IN IF st.raised \/ messages = <<>> THEN st
       ELSE LET called == [st EXCEPT !.log = Append(@, Call("insert_messages", st.D,
                                    st.chat2, st.c.identity, {}))]
            IN IF f = "insert_messages" THEN [called EXCEPT !.raised = TRUE]
               ELSE [called EXCEPT !.D = insert_messages(st.D, st.chat2, messages),
                                   !.d.messages[source] = <<>>]

(* for c in chats_differing: if c["chat"]["c2"]["id"] == chat["id"]: remove(c)
   A list that is changed while it is iterated skips the element that moves
   into the freed position; c2 or chat being None raises. *)
RECURSIVE RemoveMerged(_, _, _)
RemoveMerged(entries, i, chat) ==
    IF i > Len(entries) THEN [list |-> entries, raised |-> FALSE]
    ELSE IF entries[i].chat.c[2] = None \/ chat = None
         THEN [list |-> entries, raised |-> TRUE]
         ELSE IF entries[i].chat.c[2] = chat
              THEN RemoveMerged(RemoveAt(entries, i), i + 1, chat)
              ELSE RemoveMerged(entries, i + 1, chat)

EntryIdentities(entries) == {entries[i].chat.identity : i \in 1..Len(entries)}

Failures(st, source) ==
    {"none"} \cup
    (IF fails = 0 THEN {}
     ELSE (IF st.c.c[Other(source)] = None THEN {"insert_chat"} ELSE {})
          \cup (IF st.d.participants[source] # {} THEN {"insert_participants"} ELSE {})
          \cup (IF NewContacts(st.d.participants[source], st.D) # {}
                THEN {"insert_contacts"} ELSE {})
          \cup (IF st.d.messages[source] # <<>> THEN {"insert_messages"} ELSE {}))

MergeChatRun(st, source, f) ==
    MergeChatInsertMessages(
        MergeChatInsertParticipants(
            MergeChatInsertContacts(
                MergeChatInsertChat(st, source, f), source, f), source, f), source, f)

on_merge_chat(source) ==
    /\ CanMergeChat(source)
    /\ ops > 0
    /\ chat_diff_data # "none"
    /\ LET tgt == Other(source)
           T == DbOf(tgt)
       IN \E st0 \in {[D |-> db[T], c |-> compared[chat_diff], d |-> diffs[chat_diff_data],
                        chat2 |-> None, log |-> <<>>, raised |-> FALSE]} :
          LET chat == st0.c.c[source]
          IN /\ st0.d.messages[source] # <<>> \/ st0.d.participants[source] # {}
             /\ chat # None \/ st0.c.c[tgt] # None
             /\ \A i \in 1..Len(st0.d.messages[source]) : st0.d.messages[source][i].rec
             /\ \E f \in Failures(st0, source) :
                \E st \in {MergeChatRun(st0, source, f)} :
                \E old \in {IF chats_differing = <<>> THEN <<>>
                             ELSE chats_differing[source]} :
                \E rem \in {IF st.raised THEN [list |-> old, raised |-> TRUE]
                             ELSE RemoveMerged(old, 1, chat)} :
                LET finished == ~st.raised /\ ~rem.raised
                    c2 == IF finished
                          THEN [st.c EXCEPT
                                   !.messages[tgt] = MessageCount(st.D, st.chat2),
                                   !.last[source] = LastMessageDatetime(st.D, st.chat2)]
                          ELSE st.c
                IN /\ db' = [db EXCEPT ![T] = st.D]
                   (* db2.clear_cache() follows the removal loop *)
                   /\ stale' = IF finished THEN clear_cache(stale, T)
                                ELSE Written(stale, T, db[T], st.D)
                   /\ compared' = [compared EXCEPT ![chat_diff] = c2]
                   /\ diffs' = [diffs EXCEPT ![chat_diff_data] = st.d]
                   /\ chats_differing' = IF chats_differing = <<>> THEN <<>>
                                         ELSE [chats_differing EXCEPT ![source] = rem.list]
                   /\ enabled' = IF finished
                                 THEN [enabled EXCEPT ![IF source = 1 THEN "merge_chat1"
                                                        ELSE "merge_chat2"] = FALSE]
                                 ELSE enabled
                   /\ fails' = IF f = "none" THEN fails ELSE fails - 1
                   /\ hist' = [Did(IF finished THEN "on_merge_chat"
                                   ELSE "on_merge_chat_raised")
                                  EXCEPT !.oneway = @ /\ DbOf(source) = 1,
                                         !.idem = NoRun,
                                         !.removal = [chat |-> st0.c.identity,
                                                      found |-> EntryIdentities(old)
                                                                \ EntryIdentities(rem.list)],
                                         !.merged = IF st.raised THEN NoMerged
                                                    ELSE [side |-> source,
                                                          chats |-> {st0.c.identity}],
                                         !.calls = st.log,
                                         !.steps = [i \in 1..Len(st.log) |-> st.log[i].op],
                                         !.raised = IF st.raised THEN f ELSE "none"]
    /\ is_merging' = FALSE
    /\ ops' = ops - 1
    /\ UNCHANGED <<other_vars, htmls, left, pc, chat_diff, chat_diff_data, con_diff, congroup_diff,
                   con_difflist, list_contacts, diffresults_info, note, worker,
                   queue, later>>

(* ---------------------------------------------------------------------- *)
(* on_scan_all and the scan job of the worker thread.                      *)
(* ---------------------------------------------------------------------- *)
InfoOf(contacts, groups) ==
    [contact |-> Len(contacts), group |-> Len(groups), chat |-> 0, message |-> 0]

HasInfo(info) ==
    info.contact > 0 \/ info.group > 0 \/ info.chat > 0 \/ info.message > 0

(* a diff object that the open chat still refers to survives the reset *)
Detached ==
    IF chat_diff_data \in Identities
    THEN [k \in DiffKeys |-> IF k = "fresh" THEN diffs[chat_diff_data] ELSE EmptyDiff]
    ELSE [k \in DiffKeys |-> IF k = "fresh" THEN diffs[k] ELSE EmptyDiff]

ScanJob(h1, h2) ==
    [type |-> "diff", source |-> 1, db1 |-> h1, db2 |-> h2,
     list |-> PairChats(db[h1], db[h2]), idx |-> 0,
     contacts |-> <<>>, groups |-> <<>>, error |-> FALSE, side |-> 1]

on_scan_all ==
    /\ CanScanAll
    /\ ops > 0
    /\ htmls' = <<{}, {}>>
    /\ ops' = ops - 1
    /\ chats_differing' = << <<>>, <<>> >>
    /\ diffs' = Detached
    /\ chat_diff_data' = IF chat_diff_data \in Identities THEN "fresh" ELSE chat_diff_data
    /\ diffresults_info' = <<InfoOf(con_diff[1], congroup_diff[1]),
                             InfoOf(con_diff[2], congroup_diff[2])>>
    /\ note' = <<Len(con_diff[1]) > 0 \/ Len(congroup_diff[1]) > 0,
                 Len(con_diff[2]) > 0 \/ Len(congroup_diff[2]) > 0>>
    /\ enabled' = [enabled EXCEPT !["scan"] = FALSE, !["swap"] = FALSE,
                                  !["mergeall1"] = FALSE, !["mergeall2"] = FALSE]
    /\ worker' = Append(worker, ScanJob(Db1, Db2))
    /\ hist' = [Did("on_scan_all") EXCEPT
                    !.idem = IF @.stage = 2 THEN [@ EXCEPT !.stage = 3] ELSE NoRun,
                    !.received = NoReceived]
    /\ UNCHANGED <<other_vars, stale, db, left, pc, compared, chat_diff, con_diff, congroup_diff,
                   con_difflist, list_contacts, is_merging, queue, later, fails>>

(* the cheap equality test of the scanner: same count, same last timestamp *)
ScanIdentical(D1, D2, ident) ==
    LET r1 == IdentityMap(D1.convs, ident)
        r2 == IdentityMap(D2.convs, ident)
    IN /\ r1 # None
       /\ r2 # None
       /\ MessageCount(D1, r1) = MessageCount(D2, r2)
       /\ LastMessageDatetime(D1, r1) = LastMessageDatetime(D2, r2)

ScanEntry(chat) == [chat |-> [identity |-> chat.identity, id |-> chat.id, c |-> chat.c],
                    diff |-> chat.identity]

worker_scan_step ==
    /\ worker # <<>>
    /\ Head(worker).type = "diff"
    /\ Head(worker).idx < Len(Head(worker).list)
    /\ Len(queue) < MaxQueue
    /\ \E job \in {Head(worker)} :
       \E chat \in {job.list[job.idx + 1]} :
       \E diff \in {IF ScanIdentical(db[job.db1], db[job.db2], chat.identity)
                     THEN EmptyDiff
                     ELSE get_chat_diff(chat.identity, db[job.db1], db[job.db2])} :
       LET side(i) == IF diff.messages[i] # <<>> \/ diff.participants[i] # {}
                      THEN <<ScanEntry(chat)>> ELSE <<>>
       IN /\ diffs' = [diffs EXCEPT ![chat.identity] = diff]
          /\ queue' = Append(queue, [type |-> "diff", index |-> job.idx,
                                     chats |-> <<side(1), side(2)>>,
                                     done |-> FALSE, error |-> FALSE, source |-> 1])
          /\ worker' = <<[job EXCEPT !.idx = @ + 1]>> \o Tail(worker)
    /\ UNCHANGED <<other_vars, stale, htmls, db, left, pc, compared, chat_diff, chat_diff_data,
                   chats_differing, con_diff, congroup_diff, con_difflist,
                   list_contacts, diffresults_info, note, enabled, is_merging,
                   later, fails, ops>>
    /\ hist' = Did("worker_scan_step")

worker_scan_done ==
    /\ worker # <<>>
    /\ Head(worker).type = "diff"
    /\ Head(worker).idx = Len(Head(worker).list)
    /\ Len(queue) < MaxQueue
    /\ queue' = Append(queue, [type |-> "diff", index |-> Head(worker).idx,
                               chats |-> << <<>>, <<>> >>,
                               done |-> TRUE, error |-> FALSE, source |-> 1])
    /\ worker' = Tail(worker)
    /\ UNCHANGED <<other_vars, stale, htmls, db, left, pc, compared, chat_diff, chat_diff_data, diffs,
                   chats_differing, con_diff, congroup_diff, con_difflist,
                   list_contacts, diffresults_info, note, enabled, is_merging,
                   later, fails, ops>>
    /\ hist' = Did("worker_scan_done")

(* on_scan_all_result: appends the partial result to the comparison result *)
MissingCount(entries, i) ==
    SeqSum([k \in 1..Len(entries) |-> Len(diffs[entries[k].diff].messages[i])])

ScanInfo(info, entries, i) ==
    [info EXCEPT !.chat = @ + Len(entries), !.message = @ + MissingCount(entries, i)]

on_scan_all_result ==
    /\ queue # <<>>
    /\ Head(queue).type = "diff"
    /\ \E result \in {Head(queue)} :
       \E info \in {[i \in Sides |->
                        ScanInfo(diffresults_info[i], result.chats[i], i)]} :
       \E note2 \in {[i \in Sides |-> IF result.chats[i] # <<>> THEN HasInfo(info[i])
                                       ELSE note[i]]} :
          /\ chats_differing' = [i \in Sides |-> chats_differing[i] \o result.chats[i]]
          /\ htmls' = [i \in Sides |-> htmls[i] \cup EntryIdentities(result.chats[i])]
          /\ diffresults_info' = info
          /\ note' = note2
          /\ enabled' = IF result.done
                        THEN [enabled EXCEPT !["mergeall1"] = note2[1],
                                             !["mergeall2"] = note2[2],
                                             !["swap"] = TRUE]
                        ELSE enabled
          /\ hist' = [Did(IF result.done THEN "scan_done" ELSE "on_scan_all_result")
                          EXCEPT !.idem = IF result.done /\ @.stage = 3
                                          THEN [@ EXCEPT !.stage = 4] ELSE @,
                                 !.received = [i \in Sides |-> @[i] \o result.chats[i]]]
    /\ queue' = Tail(queue)
    /\ UNCHANGED <<other_vars, stale, db, left, pc, compared, chat_diff, chat_diff_data, diffs,
                   con_diff, congroup_diff, con_difflist, list_contacts,
                   is_merging, worker, later, fails, ops>>

(* ---------------------------------------------------------------------- *)
(* on_merge_all and the merge job of the worker thread.                    *)
(* ---------------------------------------------------------------------- *)
RawContact(identity) == [identity |-> identity, c |-> <<>>]

(* set(group["members"].split(" ")): the members column is a string of
   identities separated by blanks; splitting the empty string gives one
   empty identity *)
split(members) == IF members = <<>> THEN {""} ELSE Range(members)

(* for group in contactgroups: for new in members - contacts_target_final:
       contacts.append(contacts_source[new]) *)
RECURSIVE GroupContacts(_, _)
GroupContacts(groups, final) ==
    IF groups = <<>> THEN <<>>
    ELSE LET new == SetToSeq(split(Head(groups).members) \ final)
         IN [i \in 1..Len(new) |-> RawContact(new[i])] \o GroupContacts(Tail(groups), final)

(* contacts_target_final: the chosen contacts and those of the target *)
TargetFinal(contacts, Dtarget) ==
    {contacts[i].identity : i \in 1..Len(contacts)} \cup ContactIdentities(Dtarget)

(* the chosen contacts alone, without those the chosen groups need *)
WithoutGroupContacts(contacts, groups, Dtarget) == contacts

WithGroupContacts(contacts, groups, Dtarget) ==
    contacts \o GroupContacts(groups, TargetFinal(contacts, Dtarget))

(* contacts_source[new] raises KeyError for a new member the source has no
   row for *)
GroupMembersKnown(groups, final, Dsource) ==
    \A i \in 1..Len(groups) :
        (split(groups[i].members) \ final) \subseteq ContactIdentities(Dsource)

MergeJob(source, contacts, groups) ==
    [type |-> "merge", source |-> source, db1 |-> DbOf(source), db2 |-> DbOf(Other(source)),
     list |-> <<>>, idx |-> 0, contacts |-> contacts, groups |-> groups,
     error |-> FALSE, side |-> source]

on_merge_all(source, confirm) ==
    /\ CanMergeAll(source)
    /\ ops > 0
    /\ chats_differing # <<>>
    /\ ops' = ops - 1
    /\ GroupMembersKnown(congroup_diff[source],
                         TargetFinal(con_diff[source], db[DbOf(Other(source))]),
                         db[DbOf(source)])
    /\ \E contacts \in {WithGroupContacts(con_diff[source], congroup_diff[source],
                                            db[DbOf(Other(source))])} :
          /\ con_diff' = [con_diff EXCEPT ![source] = contacts]
          /\ IF confirm
             THEN /\ enabled' = [enabled EXCEPT !["swap"] = FALSE, !["scan"] = FALSE,
                                    !["mergeall1"] = FALSE, !["mergeall2"] = FALSE,
                                    !["page_chats"] = FALSE, !["page_contacts"] = FALSE]
                  /\ worker' = Append(worker,
                        MergeJob(source, contacts, congroup_diff[source]))
                  /\ is_merging' = TRUE
                  /\ hist' = [Did("on_merge_all") EXCEPT
                        !.oneway = @ /\ DbOf(source) = 1,
                        !.merged = [side |-> source, chats |-> {}],
                        !.failed = FALSE,
                        !.idem = IF @.stage = 4 /\ @.src = DbOf(source)
                                 THEN [stage |-> 5, src |-> @.src,
                                       base |-> <<db[DbOf(Other(source))]>>]
                                 ELSE [stage |-> 1, src |-> DbOf(source), base |-> <<>>]]
             ELSE /\ UNCHANGED <<enabled, worker, is_merging>>
                  /\ hist' = [Did("on_merge_all_declined") EXCEPT !.idem = NoRun]
    /\ UNCHANGED <<other_vars, stale, htmls, db, left, pc, compared, chat_diff, chat_diff_data, diffs,
                   chats_differing, congroup_diff, con_difflist, list_contacts,
                   diffresults_info, note, queue, later, fails>>

(* contacts and contact groups go first, as one unit *)
worker_merge_contacts ==
    /\ worker # <<>>
    /\ Head(worker).type = "merge"
    /\ Head(worker).idx = 0
    /\ LET job == Head(worker)
           ids == [i \in 1..Len(job.contacts) |-> job.contacts[i].identity]
           gs == Range(job.groups)
       IN /\ db' = [db EXCEPT ![job.db2] =
                        replace_contactgroups(insert_contacts(@, ids), gs)]
          /\ stale' = Written(stale, job.db2, db[job.db2], db'[job.db2])
          /\ worker' = <<[job EXCEPT !.idx = 1]>> \o Tail(worker)
    /\ UNCHANGED <<other_vars, htmls, left, pc, compared, chat_diff, chat_diff_data, diffs,
                   chats_differing, con_diff, congroup_diff, con_difflist,
                   list_contacts, diffresults_info, note, enabled, is_merging,
                   queue, later, fails, ops>>
    /\ hist' = Did("worker_merge_contacts")

(* one conversation: chat row if the target lacks it, then the contacts the
   participants need, then participants, then messages; the merged entry
   leaves the result *)
MergeEntry(D, Dsrc, entry, source) ==
    LET diff == diffs[entry.diff]
        ident == entry.chat.identity
        row == IdentityMap(D.convs, ident)
        D1 == IF row = None THEN insert_chat(D, ident) ELSE D
        chat2 == IdentityMap(D1.convs, ident)
        D2 == insert_contacts(D1, SetToSeq(NewContacts(diff.participants[source], D1)))
        D3 == insert_participants(D2, chat2, diff.participants[source])
        ids == {diff.messages[source][i].id : i \in 1..Len(diff.messages[source])}
    IN insert_messages(D3, chat2, get_messages(Dsrc, ids))

worker_merge_step(fail) ==
    /\ worker # <<>>
    /\ Head(worker).type = "merge"
    /\ Head(worker).idx > 0
    /\ Len(queue) < MaxQueue
    /\ \E job \in {Head(worker)} :
       \E entries \in {chats_differing[job.side]}, k \in {job.idx - Len(job.list)} :
          /\ k <= Len(entries)
          /\ fail => fails > 0
          /\ db' = IF fail THEN db
                   ELSE [db EXCEPT ![job.db2] =
                            MergeEntry(@, db[job.db1], entries[k], job.source)]
          /\ stale' = Written(stale, job.db2, db[job.db2], db'[job.db2])
          /\ chats_differing' = IF fail THEN chats_differing
                                ELSE [chats_differing EXCEPT ![job.side] = RemoveAt(@, k)]
          /\ worker' = <<[job EXCEPT !.idx = @ + 1,
                                     !.list = IF fail THEN @ ELSE Append(@, entries[k]),
                                     !.error = @ \/ fail]>> \o Tail(worker)
          /\ fails' = IF fail THEN fails - 1 ELSE fails
          /\ queue' = Append(queue, [type |-> "merge", index |-> job.idx - 1,
                                     chats |-> << <<>>, <<>> >>, done |-> FALSE,
                                     error |-> FALSE, source |-> job.source])
    /\ UNCHANGED <<other_vars, htmls, left, pc, compared, chat_diff, chat_diff_data, diffs, con_diff,
                   congroup_diff, con_difflist, list_contacts, diffresults_info,
                   note, enabled, is_merging, later, ops>>
    /\ hist' = [Did("worker_merge_step") EXCEPT
                    !.failed = @ \/ fail,
                    !.merged = IF fail THEN @
                               ELSE [side |-> Head(worker).side,
                                     chats |-> @.chats \cup
                                        {chats_differing[Head(worker).side]
                                            [Head(worker).idx - Len(Head(worker).list)]
                                            .chat.identity}]]

worker_merge_done ==
    /\ worker # <<>>
    /\ Head(worker).type = "merge"
    /\ Head(worker).idx > 0
    /\ Len(queue) < MaxQueue
    /\ LET job == Head(worker)
       IN /\ job.idx - Len(job.list) > Len(chats_differing[job.side])
          /\ queue' = Append(queue, [type |-> "merge", index |-> job.idx - 1,
                                     chats |-> << <<>>, <<>> >>, done |-> TRUE,
                                     error |-> job.error, source |-> job.source])
    /\ worker' = Tail(worker)
    /\ UNCHANGED <<other_vars, stale, htmls, db, left, pc, compared, chat_diff, chat_diff_data, diffs,
                   chats_differing, con_diff, congroup_diff, con_difflist,
                   list_contacts, diffresults_info, note, enabled, is_merging,
                   later, fails, ops>>
    /\ hist' = Did("worker_merge_done")

(* on_merge_all_result presenting every completed job as a success *)
MergeOutcomeAlwaysDone(result) == "merge_done"

(* if "error" not in result: "... merged to ...", "Merge completed.", "Copied ..." *)
MergeOutcome(result) == IF result.error THEN "merge_error" ELSE "merge_done"

(* on_merge_all_result leaving the Merging state only after a job without
   an error *)
MergeEndsUnlessError(result) == result.done /\ ~result.error

(* if "done" in result: the job's last result, with or without an error *)
MergeEnds(result) == result.done

on_merge_all_result ==
    /\ queue # <<>>
    /\ Head(queue).type = "merge"
    /\ LET result == Head(queue)
           note2 == [note EXCEPT ![result.source] = FALSE]
       IN IF MergeEnds(result)
          THEN /\ is_merging' = FALSE
               /\ chat_diff' = None
               /\ note' = note2
               /\ enabled' = [enabled EXCEPT !["page_chats"] = TRUE,
                                             !["page_contacts"] = TRUE,
                                             !["swap"] = TRUE, !["scan"] = TRUE,
                                             !["chat_items"] = FALSE,
                                             !["mergeall1"] = note2[1],
                                             !["mergeall2"] = note2[2]]
               /\ list_contacts' = << <<>>, <<>> >>
               /\ later' = later + 1
               /\ stale' = clear_cache(stale, DbOf(Other(result.source)))
               /\ htmls' = IF result.error THEN htmls
                            ELSE [htmls EXCEPT ![result.source] = {}]
               /\ hist' = [Did(MergeOutcome(result))
                     EXCEPT !.idem = IF @.stage = 5 THEN [@ EXCEPT !.stage = 6]
                                     ELSE IF @.stage = 1 /\ ~result.error
                                          THEN [@ EXCEPT !.stage = 2] ELSE NoRun]
          ELSE /\ UNCHANGED <<is_merging, chat_diff, note, enabled, list_contacts, later,
                               htmls, stale>>
               /\ hist' = Did("on_merge_all_result")
    /\ queue' = Tail(queue)
    /\ UNCHANGED <<other_vars, db, left, pc, compared, chat_diff_data, diffs, chats_differing,
                   con_diff, congroup_diff, con_difflist, diffresults_info,
                   worker, fails, ops>>

(* ---------------------------------------------------------------------- *)
(* on_swap: exchanges left and right.                                      *)
(* ---------------------------------------------------------------------- *)
Reverse2(pair) == IF pair = <<>> THEN <<>> ELSE <<pair[2], pair[1]>>

(* item[key1], item[key2] = item[key2], item[key1], for the keys an item has *)
SwapContactItems(items) ==
    [i \in 1..Len(items) |-> [items[i] EXCEPT !.c = Reverse2(@)]]

SwapGroupItems(items) ==
    [i \in 1..Len(items) |-> [items[i] EXCEPT !.g = Reverse2(@)]]

(* on_swap losing the left message count *)
SwapComparedLossy(items) ==
    [i \in 1..Len(items) |-> [items[i] EXCEPT !.c = Reverse2(@),
                                               !.messages = <<@[2], @[2]>>]]

SwapCompared(items) ==
    [i \in 1..Len(items) |-> [items[i] EXCEPT !.c = Reverse2(@), !.messages = Reverse2(@)]]

SwapEnabled(en) ==
    [en EXCEPT !["chat_items"] = TRUE,
               !["mergeall1"] = en["mergeall2"], !["mergeall2"] = en["mergeall1"],
               !["merge_chat1"] = en["merge_chat2"], !["merge_chat2"] = en["merge_chat1"],
               !["allcontacts1"] = en["allcontacts2"], !["allcontacts2"] = en["allcontacts1"]]

(* the inner lists of chats_differing keep their identity when the outer list
   is reversed; a running merge job follows its list *)
SwapJobs(jobs) ==
    [i \in 1..Len(jobs) |-> [jobs[i] EXCEPT !.side = Other(@)]]

Snapshot ==
    [left |-> left, con_diff |-> con_diff, con_difflist |-> con_difflist,
     congroup_diff |-> congroup_diff, chats_differing |-> chats_differing,
     diffresults_info |-> diffresults_info, compared |-> compared,
     diffs |-> diffs, db |-> db]

(* the contents of the two databases changing places under their handles *)
SwapContents(l, D) == [left |-> l, db |-> <<D[2], D[1]>>]

(* self.db1, self.db2 = self.db2, self.db1: the two handles change places;
   the databases they stand for are not touched *)
SwapHandles(l, D) == [left |-> Other(l), db |-> D]

on_swap ==
    /\ CanSwap
    /\ ops > 0
    /\ htmls' = Reverse2(htmls)
    /\ \E sw \in {SwapHandles(left, db)} :
          /\ left' = sw.left
          /\ db' = sw.db
    /\ con_diff' = <<SwapContactItems(con_diff[2]), SwapContactItems(con_diff[1])>>
    /\ con_difflist' = Reverse2(con_difflist)
    /\ congroup_diff' = <<SwapGroupItems(congroup_diff[1]), SwapGroupItems(congroup_diff[2])>>
    /\ note' = Reverse2(note)
    /\ compared' = SwapCompared(compared)
    /\ chats_differing' = Reverse2(chats_differing)
    /\ diffresults_info' = Reverse2(diffresults_info)
    /\ list_contacts' = Reverse2(con_difflist)
    /\ enabled' = SwapEnabled(enabled)
    /\ worker' = SwapJobs(worker)
    /\ ops' = ops - 1
    /\ hist' = [Did("on_swap") EXCEPT !.swaps = IF hist.swaps < 2 THEN hist.swaps + 1 ELSE 2,
                                      !.snap = <<Snapshot>>, !.snap2 = hist.snap,
                                      !.oneway = FALSE, !.idem = NoRun,
                                      !.merged = IF @.side = 0 THEN @
                                                 ELSE [@ EXCEPT !.side = Other(@)]]
    /\ UNCHANGED <<other_vars, stale, pc, chat_diff, chat_diff_data, diffs, is_merging, queue,
                   later, fails>>

(* ---------------------------------------------------------------------- *)
(* on_merge_contacts: copies listed contacts and contact groups.           *)
(* ---------------------------------------------------------------------- *)
RECURSIVE RemoveIndices(_, _, _)
RemoveIndices(list, sel, i) ==
    IF i > Len(list) THEN <<>>
    ELSE (IF i \in sel THEN <<>> ELSE <<list[i]>>) \o RemoveIndices(list, sel, i + 1)

RECURSIVE SelectedOf(_, _, _, _)
SelectedOf(list, sel, i, type) ==
    IF i > Len(list) THEN <<>>
    ELSE (IF i \in sel /\ list[i].type = type THEN <<list[i]>> ELSE <<>>)
         \o SelectedOf(list, sel, i + 1, type)

(* try: if contacts: insert_contacts(...); if contactgroups:
   replace_contactgroups(...) with every step attempted, whatever raised *)
MergeContactsRunOn(D, ids, gs, f) ==
    LET s1 == IF ids = <<>> THEN [D |-> D, log |-> <<>>, raised |-> FALSE]
              ELSE [D |-> IF f = "insert_contacts" THEN D ELSE insert_contacts(D, ids),
                    log |-> <<"insert_contacts">>, raised |-> f = "insert_contacts"]
    IN IF gs = <<>> THEN s1
       ELSE [D |-> IF f = "replace_contactgroups" THEN s1.D
                   ELSE replace_contactgroups(s1.D, Range(gs)),
             log |-> Append(s1.log, "replace_contactgroups"),
             raised |-> s1.raised \/ f = "replace_contactgroups"]

(* try: if contacts: insert_contacts(...); if contactgroups:
   replace_contactgroups(...); f names the call that is made to fail *)
MergeContactsRun(D, ids, gs, f) ==
    LET s1 == IF ids = <<>> THEN [D |-> D, log |-> <<>>, raised |-> FALSE]
              ELSE [D |-> IF f = "insert_contacts" THEN D ELSE insert_contacts(D, ids),
                    log |-> <<"insert_contacts">>, raised |-> f = "insert_contacts"]
    IN IF s1.raised \/ gs = <<>> THEN s1
       ELSE [D |-> IF f = "replace_contactgroups" THEN s1.D
                   ELSE replace_contactgroups(s1.D, Range(gs)),
             log |-> Append(s1.log, "replace_contactgroups"),
             raised |-> f = "replace_contactgroups"]

ContactFailures(ids, gs) ==
    {"none"} \cup
    (IF fails = 0 THEN {}
     ELSE (IF ids # <<>> THEN {"insert_contacts"} ELSE {})
          \cup (IF gs # <<>> THEN {"replace_contactgroups"} ELSE {}))

on_merge_contacts(source, all, sel) ==
    /\ CanMergeContacts(source)
    /\ ops > 0
    /\ all => enabled[IF source = 1 THEN "allcontacts1" ELSE "allcontacts2"]
    /\ sel # {}
    /\ sel \subseteq 1..Len(list_contacts[source])
    /\ all => sel = 1..Len(list_contacts[source])
    /\ \E T \in {DbOf(Other(source))}, list \in {list_contacts[source]} :
       \E chosen \in {SelectedOf(list, sel, 1, "Contact")},
          groups \in {SelectedOf(list, sel, 1, "Group")} :
       \E gs \in {[i \in 1..Len(groups) |-> [name |-> groups[i].key,
                                               members |-> groups[i].members]]} :
       \E contacts \in {WithGroupContacts(
                            [i \in 1..Len(chosen) |-> RawContact(chosen[i].key)],
                            gs, db[T])} :
       \E ids \in {[i \in 1..Len(contacts) |-> contacts[i].identity]} :
       \E f \in ContactFailures(ids, gs) :
       \E run \in {MergeContactsRun(db[T], ids, gs, f)} :
          /\ GroupMembersKnown(gs,
                TargetFinal([i \in 1..Len(chosen) |-> RawContact(chosen[i].key)], db[T]),
                db[DbOf(source)])
          /\ db' = [db EXCEPT ![T] = run.D]
          /\ fails' = IF f = "none" THEN fails ELSE fails - 1
          /\ IF run.raised
             THEN /\ UNCHANGED <<list_contacts, enabled>>
                  /\ stale' = Written(stale, T, db[T], run.D)
             ELSE /\ stale' = clear_cache(stale, T)
                  /\ list_contacts' = [list_contacts EXCEPT ![source] =
                                            RemoveIndices(list, sel, 1)]
                  (* for c in [contacts, contactgroups]: [l.remove(c) for l in
                     [condiff, cgdiff, difflist] if c in l]: c is a whole list,
                     which is an element of none of the three lists, so
                     con_diff, congroup_diff and con_difflist stay as they are *)
                  /\ enabled' = [enabled EXCEPT
                        ![IF source = 1 THEN "allcontacts1" ELSE "allcontacts2"] =
                            Len(RemoveIndices(list, sel, 1)) > 0]
          /\ hist' = [Did(IF run.raised THEN "on_merge_contacts_raised"
                          ELSE "on_merge_contacts")
                         EXCEPT !.oneway = @ /\ DbOf(source) = 1, !.idem = NoRun,
                                !.merged = IF run.raised THEN NoMerged
                                           ELSE [side |-> source, chats |-> {}],
                                !.steps = run.log,
                                !.raised = IF run.raised THEN f ELSE "none",
                                !.unit = [target |-> T, groups |-> gs, ids |-> ids,
                                          before |-> ContactIdentities(db[T])]]
    /\ is_merging' = FALSE
    /\ ops' = ops - 1
    /\ UNCHANGED <<other_vars, htmls, left, pc, compared, chat_diff, chat_diff_data, diffs,
                   chats_differing, con_diff, congroup_diff, con_difflist,
                   diffresults_info, note, worker, queue, later>>

(* ---------------------------------------------------------------------- *)
(* The percent shown for a progress result:                                *)
(*     percent = math.ceil(100 * util.safedivf(i, count))                  *)
(* in double precision.  A double is a record [m, e]: m its 53 significant *)
(* bits, most significant first, and e the exponent of the last of them,   *)
(* so that the value is m * 2^e; zero has no bits.                         *)
(* ---------------------------------------------------------------------- *)
Zeros(k) == [j \in 1..k |-> 0]

Reverse(bits) == [j \in 1..Len(bits) |-> bits[Len(bits) + 1 - j]]

RECURSIVE BitsToInt(_)
BitsToInt(bits) ==
    IF bits = <<>> THEN 0
    ELSE 2 * BitsToInt(SubSeq(bits, 1, Len(bits) - 1)) + bits[Len(bits)]

RECURSIVE StripZeros(_)
StripZeros(bits) ==
    IF bits # <<>> /\ Head(bits) = 0 THEN StripZeros(Tail(bits)) ELSE bits

(* binary addition, least significant bit first *)
RECURSIVE AddRev(_, _, _)
AddRev(a, b, carry) ==
    IF a = <<>> /\ b = <<>> THEN (IF carry = 1 THEN <<1>> ELSE <<>>)
    ELSE LET x == IF a = <<>> THEN 0 ELSE Head(a)
             y == IF b = <<>> THEN 0 ELSE Head(b)
             sum == x + y + carry
         IN <<sum % 2>> \o AddRev(IF a = <<>> THEN a ELSE Tail(a),
                                   IF b = <<>> THEN b ELSE Tail(b), sum \div 2)

AddBits(a, b) == Reverse(AddRev(Reverse(a), Reverse(b), 0))

FloatZero == [m |-> <<>>, e |-> 0]

(* rounding to 53 significant bits, ties to the even neighbour; bits start
   with a 1 and are at least 53, e is the exponent of the last of them *)
Round53(bits, e) ==
    LET d == Len(bits) - 53
        kept == SubSeq(bits, 1, 53)
        up == /\ d > 0
              /\ bits[54] = 1
              /\ (kept[53] = 1 \/ \E j \in 55..Len(bits) : bits[j] = 1)
        inc == AddBits(kept, <<1>>)
    IN IF ~up THEN [m |-> kept, e |-> e + d]
       ELSE IF Len(inc) = 54 THEN [m |-> SubSeq(inc, 1, 53), e |-> e + d + 1]
       ELSE [m |-> inc, e |-> e + d]

(* the next k bits of r / n for r < n, and what is left after them *)
RECURSIVE DivBits(_, _, _)
DivBits(r, n, k) ==
    IF k = 0 THEN <<>>
    ELSE IF 2 * r >= n THEN <<1>> \o DivBits(2 * r - n, n, k - 1)
    ELSE <<0>> \o DivBits(2 * r, n, k - 1)

RECURSIVE DivRem(_, _, _)
DivRem(r, n, k) ==
    IF k = 0 THEN r
    ELSE IF 2 * r >= n THEN DivRem(2 * r - n, n, k - 1)
    ELSE DivRem(2 * r, n, k - 1)

(* the zero bits after the binary point before the first 1 of r / n *)
RECURSIVE LeadingZeros(_, _)
LeadingZeros(r, n) == IF 2 * r >= n THEN 0 ELSE 1 + LeadingZeros(2 * r, n)

(* a / float(b) for 0 < a <= b: 53 bits, a guard bit and a sticky bit of the
   quotient, rounded *)
FloatDiv(a, b) ==
    IF a = b THEN [m |-> <<1>> \o Zeros(52), e |-> -52]
    ELSE LET z == LeadingZeros(a, b)
             r == DivRem(a, b, z)
             sticky == IF DivRem(r, b, 54) # 0 THEN 1 ELSE 0
         IN Round53(Append(DivBits(r, b, 54), sticky), -(z + 55))

(* safedivf: a / float(b), or 0.0 if b is 0 *)
safedivf(a, b) == IF b = 0 \/ a = 0 THEN FloatZero ELSE FloatDiv(a, b)

(* 100 * x: the exact product 64 x + 32 x + 4 x, rounded *)
Times100(x) ==
    IF x = FloatZero THEN x
    ELSE Round53(StripZeros(AddBits(AddBits(x.m \o Zeros(6), x.m \o Zeros(5)),
                                    x.m \o Zeros(2))), x.e)

(* math.ceil(x) for 0 <= x < 2^31 *)
ceil(x) ==
    IF x = FloatZero THEN 0
    ELSE LET n == 53 + x.e
         IN IF n <= 0 THEN 1
            ELSE BitsToInt(SubSeq(x.m, 1, n))
                 + (IF \E j \in (n + 1)..53 : x.m[j] = 1 THEN 1 ELSE 0)

(* the percent computed in the rationals: ceil(100 * i / count) *)
PercentExact(i, count) == IF count = 0 THEN 0 ELSE (100 * i + count - 1) \div count

Percent(i, count) == ceil(Times100(safedivf(i, count)))

(* no gauge has been updated *)
NoGauge == [name |-> "none", value |-> 0, x |-> 0, n |-> 0]

(* on_scan_all_result: i, count = result["index"] + 1, len(self.compared);
   msg = "Scan %d%% complete (%s of %s)." % (percent, i + 1, ...) *)
scan_progress ==
    /\ gauge = NoGauge
    /\ progress.count > 0
    /\ \E i \in {progress.index + 1} :
          gauge' = [name |-> "gauge_scan",
                    value |-> Percent(i, progress.count),
                    x |-> i + 1, n |-> progress.count]
    /\ UNCHANGED <<progress, msg_ids, queries, msg_rows, resolved, page_vars, window_vars>>

(* on_merge_all_result: i, count = result["index"] + 1,
   len(result["params"]["chats"]);
   msg = "Merge %d%% complete (%s of %s)." % (percent, i, ...) *)
merge_progress ==
    /\ gauge = NoGauge
    /\ progress.count > 0
    /\ \E i \in {progress.index + 1} :
          gauge' = [name |-> "gauge_merge",
                    value |-> Percent(i, progress.count),
                    x |-> i, n |-> progress.count]
    /\ UNCHANGED <<progress, msg_ids, queries, msg_rows, resolved, page_vars, window_vars>>

(* ---------------------------------------------------------------------- *)
(* MainWindow: the table of open databases and the pages that use them.    *)
(* A database is identified by its file name; a page by its number.        *)
(* ---------------------------------------------------------------------- *)
(* page_dbs: the databases of the page that was closed; closed: those of
   them that were closed with it; running: whether its thread held a job;
   found: the open page that compare_databases selected instead of a new
   one, with the two file names it was called with *)
NoClosing == [page_dbs |-> {}, closed |-> {}, running |-> FALSE, found |-> <<>>]

IsDatabasePage(p) == db_pages[p] # NoFile

IsMergerPage(p) == merger_pages[p] # <<>>

FreePages == {p \in Pages : ~IsDatabasePage(p) /\ ~IsMergerPage(p)}

(* db.register_consumer(page), db.unregister_consumer(page), db.has_consumers() *)
register_consumer(c, f, p) == [c EXCEPT ![f] = @ \cup {p}]

unregister_consumer(c, f, p) == [c EXCEPT ![f] = @ \ {p}]

has_consumers(c, f) == c[f] # {}

(* load_database: the database of the table, or a newly opened one that is
   put into the table; ok tells whether the file can be opened *)
load_database(table, filename, ok) ==
    IF filename \in table THEN [db |-> TRUE, dbs |-> table]
    ELSE IF ok THEN [db |-> TRUE, dbs |-> table \cup {filename}]
    ELSE [db |-> FALSE, dbs |-> table]

(* the loading of the page that is opened, which ends in
   wx.CallAfter(self.update_tabheader), is taken with its creation *)
load_database_page(filename, ok) ==
    /\ \E loaded \in {load_database(dbs, filename, ok)} :
          IF filename \in dbs /\ \E p \in Pages : db_pages[p] = filename
          THEN UNCHANGED window_vars
          ELSE IF loaded.db
               THEN /\ FreePages # {}
                    /\ \E page \in {Min(FreePages)} :
                          /\ dbs' = loaded.dbs
                          /\ db_pages' = [db_pages EXCEPT ![page] = filename]
                          /\ consumers' = register_consumer(consumers, filename, page)
                          /\ callafter' = CallAfter(callafter, page)
                    /\ closing' = NoClosing
                    /\ UNCHANGED <<merger_pages, ready_to_close>>
               ELSE UNCHANGED window_vars
    /\ UNCHANGED <<page_vars, calc_vars>>

(* Close DB with no owner: for db in filter(None, [db1, db2]) *)
CloseUnowned(table, c, files) == table \ {f \in files : ~has_consumers(c, f)}

(* compare_databases creates the page, whose loading is taken with its
   creation as in load_database_page *)
(* <<i.db1, i.db2>> of the MergerPage i: the databases the page was created
   with, in the order its on_swap has left them *)
PageDbs(p) ==
    IF p = ThisPage THEN <<merger_pages[p][Db1], merger_pages[p][Db2]>>
    ELSE merger_pages[p]

(* a lookup that takes the page only if its left and right are the same *)
SameOrder(p, db1, db2) == PageDbs(p) = <<db1, db2>>

(* set([i.db1, i.db2]) == dbset *)
SamePair(p, db1, db2) == Range(PageDbs(p)) = {db1, db2}

compare_databases(filename1, filename2, ok1, ok2) ==
    /\ filename1 # filename2
    /\ \E db1 \in {load_database(dbs, filename1, ok1)} :
       \E db2 \in {IF db1.db THEN load_database(db1.dbs, filename2, ok2)
                    ELSE [db |-> FALSE, dbs |-> db1.dbs]} :
          IF db1.db /\ db2.db
          THEN \E pp \in {{p \in Pages : IsMergerPage(p)
                                          /\ SamePair(p, filename1, filename2)}} :
               IF pp # {}
               THEN /\ dbs' = db2.dbs
                    /\ closing' = [NoClosing EXCEPT
                                      !.found = <<Min(pp), filename1, filename2>>]
                    /\ UNCHANGED <<db_pages, merger_pages, consumers, ready_to_close,
                                   callafter>>
               ELSE /\ FreePages # {}
                    /\ \E page \in {Min(FreePages)} :
                          /\ dbs' = db2.dbs
                          /\ merger_pages' = [merger_pages EXCEPT
                                                 ![page] = <<filename1, filename2>>]
                          /\ consumers' = register_consumer(
                                             register_consumer(consumers, filename1, page),
                                             filename2, page)
                          /\ callafter' = CallAfter(callafter, page)
                    /\ closing' = NoClosing
                    /\ UNCHANGED <<db_pages, ready_to_close>>
          ELSE /\ dbs' = CloseUnowned(db2.dbs, consumers,
                                      IF db1.db THEN {filename1} ELSE {})
               /\ UNCHANGED <<db_pages, merger_pages, consumers, ready_to_close,
                              callafter, closing>>
    /\ UNCHANGED <<page_vars, calc_vars>>

(* update_tabheader, run by wx.CallAfter at the end of the page's loading *)
update_tabheader(page) ==
    /\ IsDatabasePage(page) \/ IsMergerPage(page)
    /\ page \in callafter
    /\ callafter' = callafter \ {page}
    /\ ready_to_close' = ready_to_close \cup {page}
    /\ UNCHANGED <<dbs, db_pages, merger_pages, consumers, closing>>
    /\ UNCHANGED <<page_vars, calc_vars>>

(* on_close_page closing every database of the page *)
ClosePageDbsAlways(table, c, page_dbs, page) ==
    LET c2 == [f \in Files |-> IF f \in page_dbs THEN c[f] \ {page} ELSE c[f]]
    IN [consumers |-> c2, dbs |-> table \ page_dbs]

(* for db in page_dbs: db.unregister_consumer(page); if not db.has_consumers():
   if db.filename in self.dbs: del self.dbs[db.filename]; db.close() *)
ClosePageDbs(table, c, page_dbs, page) ==
    LET c2 == [f \in Files |-> IF f \in page_dbs THEN unregister_consumer(c, f, page)[f]
                               ELSE c[f]]
    IN [consumers |-> c2,
        dbs |-> table \ {f \in page_dbs : ~has_consumers(c2, f)}]

(* a close that leaves the thread of the page running *)
KeepRunning(jobs) == jobs

(* page.worker_merge.stop(); page.worker_merge.join(): the thread looks at the
   stop request between two units of work, so the jobs it holds are dropped and
   it has ended when join returns *)
StopAndJoin(jobs) == <<>>

(* veto: the user cancels the question about unsaved data or a running merge *)
on_close_page(page, veto) ==
    /\ IsDatabasePage(page) \/ IsMergerPage(page)
    /\ IF page \notin ready_to_close \/ veto
       THEN UNCHANGED <<window_vars, worker>>
       (* a call still pending for the closed page finds it destroyed *)
       ELSE \E page_dbs \in {IF IsDatabasePage(page) THEN {db_pages[page]}
                              ELSE Range(merger_pages[page])} :
            \E stopped \in {IF IsMergerPage(page) /\ page = ThisPage
                             THEN StopAndJoin(worker) ELSE worker} :
            \E closed \in {ClosePageDbs(dbs, consumers, page_dbs, page)} :
               /\ db_pages' = [db_pages EXCEPT ![page] = NoFile]
               /\ merger_pages' = [merger_pages EXCEPT ![page] = <<>>]
               /\ worker' = stopped
               /\ consumers' = closed.consumers
               /\ dbs' = closed.dbs
               /\ ready_to_close' = ready_to_close \ {page}
               /\ callafter' = callafter \ {page}
               /\ closing' = [page_dbs |-> page_dbs, closed |-> dbs \ closed.dbs,
                              running |-> IsMergerPage(page) /\ page = ThisPage
                                          /\ worker # <<>>,
                              found |-> <<>>]
    /\ UNCHANGED <<db, left, pc, compared, chat_diff, chat_diff_data, diffs,
                   chats_differing, con_diff, congroup_diff, con_difflist,
                   list_contacts, diffresults_info, note, enabled, is_merging,
                   queue, later, fails, ops, htmls, stale, hist>>
    /\ UNCHANGED calc_vars

(* ---------------------------------------------------------------------- *)
(* Specifications                                                          *)
(* ---------------------------------------------------------------------- *)
InitPage ==
    /\ left = 1
    /\ pc = "new"
    /\ compared = <<>>
    /\ chat_diff = None
    /\ chat_diff_data = "none"
    /\ diffs = [k \in DiffKeys |-> EmptyDiff]
    /\ chats_differing = <<>>
    /\ con_diff = << <<>>, <<>> >>
    /\ congroup_diff = << <<>>, <<>> >>
    /\ con_difflist = << <<>>, <<>> >>
    /\ list_contacts = << <<>>, <<>> >>
    /\ diffresults_info = <<>>
    /\ note = <<FALSE, FALSE>>
    /\ enabled = InitEnabled
    /\ is_merging = FALSE
    /\ worker = <<>>
    /\ queue = <<>>
    /\ later = 0
    /\ fails = MaxFail
    /\ ops = MaxOps
    /\ htmls = <<{}, {}>>
    /\ stale = {}
    /\ hist = InitHist

(* MainWindow.__init__: no database is open *)
InitCalc ==
    /\ progress = [index |-> 0, count |-> 0]
    /\ gauge = NoGauge
    /\ msg_ids = <<>>
    /\ queries = <<>>
    /\ msg_rows = <<>>
    /\ resolved = FALSE

InitWindow ==
    /\ InitCalc
    /\ dbs = {}
    /\ db_pages = [p \in Pages |-> NoFile]
    /\ merger_pages = [p \in Pages |-> <<>>]
    /\ consumers = [f \in Files |-> {}]
    /\ ready_to_close = {}
    /\ callafter = {}
    /\ closing = NoClosing

(* the window after compare_databases has opened the page of two files *)
InitCompared ==
    /\ InitCalc
    /\ dbs = {"f1", "f2"}
    /\ db_pages = [p \in Pages |-> NoFile]
    /\ merger_pages = [p \in Pages |-> IF p = 1 THEN <<"f1", "f2">> ELSE <<>>]
    /\ consumers = [f \in Files |-> IF f \in {"f1", "f2"} THEN {1} ELSE {}]
    /\ ready_to_close = {}
    /\ callafter = {}
    /\ closing = NoClosing

Init ==
    /\ db \in {<<l, r>> : l \in LeftChatDbs, r \in RightChatDbs}
    /\ InitPage
    /\ InitCompared

Next ==
    \/ load_data
    \/ load_later_data
    \/ \E k \in 1..2 : on_change_list_chats(k)
    \/ \E k \in 1..2 : on_click_htmldiff(k)
    \/ \E source \in Sides : on_merge_chat(source)
    \/ on_scan_all
    \/ worker_scan_step
    \/ worker_scan_done
    \/ on_scan_all_result
    \/ \E source \in Sides, confirm \in BOOLEAN : on_merge_all(source, confirm)
    \/ worker_merge_contacts
    \/ \E fail \in BOOLEAN : worker_merge_step(fail)
    \/ worker_merge_done
    \/ on_merge_all_result
    \/ on_swap

Spec == Init /\ [][Next]_vars

(* the same page over databases with people, contacts merge included *)
InitPeople ==
    /\ db \in {<<l, r>> : l \in LeftPeopleDbs, r \in RightPeopleDbs}
    /\ InitPage
    /\ InitCompared

NextPeople ==
    \/ Next
    \/ \E source \in Sides :
          \E all \in BOOLEAN, sel \in SUBSET (1..Len(list_contacts[source])) :
                on_merge_contacts(source, all, sel)

SpecPeople == InitPeople /\ [][NextPeople]_vars

(* the same page with a worker thread that keeps running its jobs and a
   main loop that keeps dispatching the posted results: MergeThread.run takes
   the next job whenever one is queued, and wx delivers every posted
   WorkerEvent to on_worker_merge_result *)
Fairness ==
    /\ WF_vars(worker_scan_step)
    /\ WF_vars(worker_scan_done)
    /\ WF_vars(on_scan_all_result)
    /\ WF_vars(worker_merge_contacts)
    /\ WF_vars(\E fail \in BOOLEAN : worker_merge_step(fail))
    /\ WF_vars(worker_merge_done)
    /\ WF_vars(on_merge_all_result)

(* one pair of databases with something to merge in both directions: the
   left with conversation a, contact x and group g, the right with contact
   y and no conversation *)
InitLive ==
    /\ InitPeople
    /\ db[1].groups # {}
    /\ db[2].groups = {}
    /\ db[2].convs = {}

SpecLive == InitLive /\ [][NextPeople]_vars /\ Fairness

(* the page over databases that differ in their contact groups *)
InitGroups ==
    /\ db \in {<<l, r>> : l \in GroupDbs({"x", "y"}),
                           r \in GroupDbs({"y"}) \cup GroupDbs({"x", "y"})}
    /\ InitPage
    /\ InitCompared

NextGroups ==
    \/ load_data
    \/ load_later_data
    \/ on_swap
    \/ \E source \in Sides :
          \E all \in BOOLEAN, sel \in SUBSET (1..Len(list_contacts[source])) :
                on_merge_contacts(source, all, sel)

SpecGroups == InitGroups /\ [][NextGroups]_vars

(* the page over a left database with two contact groups that share a
   member and a right database without groups *)
InitShared ==
    /\ db \in {<<l, r>> : l \in SharedGroupDbs({"x", "y"}),
                           r \in GroupDbs({"y"}) \cup GroupDbs({"x", "y"})}
    /\ InitPage
    /\ InitCompared

SpecShared == InitShared /\ [][NextGroups]_vars

(* the MainWindow opening and closing pages; the pages themselves stay as
   they were created *)
InitMain ==
    /\ db \in {<<l, r>> : l \in {CHOOSE x \in LeftPeopleDbs : TRUE},
                           r \in {CHOOSE x \in RightPeopleDbs : TRUE}}
    /\ InitPage
    /\ InitWindow

NextMain ==
    \/ \E filename \in Files, ok \in BOOLEAN : load_database_page(filename, ok)
    \/ \E filename1, filename2 \in Files, ok1, ok2 \in BOOLEAN :
          compare_databases(filename1, filename2, ok1, ok2)
    \/ \E page \in Pages : update_tabheader(page)
    \/ \E page \in Pages, veto \in BOOLEAN : on_close_page(page, veto)

SpecMain == InitMain /\ [][NextMain]_vars

(* one MergerPage with its thread, and the MainWindow closing it: the handlers
   of the page run while the page exists, the thread runs on its own *)
NextClose ==
    \/ IsMergerPage(ThisPage) /\ load_data
    \/ IsMergerPage(ThisPage) /\ load_later_data
    \/ IsMergerPage(ThisPage) /\ on_scan_all
    \/ IsMergerPage(ThisPage) /\ on_scan_all_result
    \/ IsMergerPage(ThisPage) /\ \E source \in Sides, confirm \in BOOLEAN :
                                      on_merge_all(source, confirm)
    \/ IsMergerPage(ThisPage) /\ on_merge_all_result
    \/ worker_scan_step
    \/ worker_scan_done
    \/ worker_merge_contacts
    \/ \E fail \in BOOLEAN : worker_merge_step(fail)
    \/ worker_merge_done
    \/ update_tabheader(ThisPage)
    \/ \E veto \in BOOLEAN : on_close_page(ThisPage, veto)

SpecClose == InitLive /\ [][NextClose]_vars

(* one MergerPage that stays open, scanned and swapped, and the MainWindow
   asked to compare pairs of files, with other pages opened and closed *)
NextPair ==
    \/ load_data
    \/ load_later_data
    \/ on_scan_all
    \/ worker_scan_step
    \/ worker_scan_done
    \/ on_scan_all_result
    \/ on_swap
    \/ \E filename1, filename2 \in Files, ok1, ok2 \in BOOLEAN :
          compare_databases(filename1, filename2, ok1, ok2)
    \/ \E page \in Pages \ {ThisPage} : update_tabheader(page)
    \/ \E page \in Pages \ {ThisPage}, veto \in BOOLEAN : on_close_page(page, veto)

SpecPair == InitLive /\ [][NextPair]_vars

(* the loading of one MergerPage, with database access that may raise, and
   what the page can do afterwards: the scan and the swap *)
NextReady ==
    \/ load_data
    \/ load_data_error
    \/ load_later_data
    \/ load_later_data_error
    \/ update_tabheader(ThisPage)
    \/ on_scan_all
    \/ worker_scan_step
    \/ worker_scan_done
    \/ on_scan_all_result
    \/ on_swap

(* MergerPage.__init__ calls load_data; the timer of wx.CallLater runs
   load_later_data and the main loop runs what wx.CallAfter has queued *)
FairnessReady ==
    /\ WF_vars(load_data \/ load_data_error)
    /\ WF_vars(load_later_data \/ load_later_data_error)
    /\ WF_vars(update_tabheader(ThisPage))

SpecReady == InitPeople /\ [][NextReady]_vars /\ FairnessReady

(* the retrieval loop over id lists of up to MaxIds ids *)
InitChunks ==
    /\ db \in {<<l, r>> : l \in {CHOOSE x \in LeftPeopleDbs : TRUE},
                           r \in {CHOOSE x \in RightPeopleDbs : TRUE}}
    /\ InitPage
    /\ dbs = {"f1", "f2"}
    /\ db_pages = [p \in Pages |-> NoFile]
    /\ merger_pages = [p \in Pages |-> IF p = 1 THEN <<"f1", "f2">> ELSE <<>>]
    /\ consumers = [f \in Files |-> IF f \in {"f1", "f2"} THEN {1} ELSE {}]
    /\ ready_to_close = {}
    /\ callafter = {}
    /\ closing = NoClosing
    /\ progress = [index |-> 0, count |-> 0]
    /\ gauge = NoGauge
    /\ msg_ids \in {IdList(n, first, step) : n \in ChunkLengths, first \in 1..2, step \in 1..2}
    /\ queries = <<>>
    /\ msg_rows = <<>>
    /\ resolved = FALSE

NextChunks == resolve_messages

SpecChunks == InitChunks /\ [][NextChunks]_vars

(* progress results of jobs of up to MaxUnits units *)
InitPercent ==
    /\ db \in {<<l, r>> : l \in {CHOOSE x \in LeftPeopleDbs : TRUE},
                           r \in {CHOOSE x \in RightPeopleDbs : TRUE}}
    /\ InitPage
    /\ dbs = {"f1", "f2"}
    /\ db_pages = [p \in Pages |-> NoFile]
    /\ merger_pages = [p \in Pages |-> IF p = 1 THEN <<"f1", "f2">> ELSE <<>>]
    /\ consumers = [f \in Files |-> IF f \in {"f1", "f2"} THEN {1} ELSE {}]
    /\ ready_to_close = {}
    /\ callafter = {}
    /\ closing = NoClosing
    /\ msg_ids = <<>>
    /\ queries = <<>>
    /\ msg_rows = <<>>
    /\ resolved = FALSE
    /\ progress \in {[index |-> k, count |-> n] : k \in 0..(MaxUnits - 1), n \in 1..MaxUnits}
    /\ progress.index < progress.count
    /\ gauge = NoGauge

NextPercent ==
    \/ scan_progress
    \/ merge_progress

SpecPercent == InitPercent /\ [][NextPercent]_vars

(* the loading of the page over any two databases, each with none, one or
   both of the conversations, in any rows *)
InitLoad ==
    /\ db \in {<<l, r>> : l \in RightChatDbs, r \in RightChatDbs}
    /\ InitPage
    /\ InitCompared

NextLoad ==
    \/ load_data
    \/ load_later_data

SpecLoad == InitLoad /\ [][NextLoad]_vars

(* ---------------------------------------------------------------------- *)
(* Properties                                                              *)
(* ---------------------------------------------------------------------- *)
SigCopies(D, ident, sig) ==
    Cardinality({m \in MsgsOf(D, ident) : m.sig = sig})

(* C1: as long as every merge went from handle 1 to handle 2 and the sides
   were never swapped, for every conversation C and every message m of the
   source's C, the target's C holds at most one message with m's signature. *)
C1_NoDuplicateMessages ==
    hist.oneway =>
        \A ident \in Identities : \A m \in MsgsOf(db[1], ident) :
            SigCopies(db[2], ident, m.sig) <= 1

(* C2: once a merge-all from one handle has completed, the pair was scanned
   again and merge-all runs from the same handle a second time, the target
   database stays what it was when the second run began. *)
C2_SecondMergeAllInsertsNothing ==
    hist.idem.stage \in {5, 6} => db[Other(hist.idem.src)] = hist.idem.base[1]

Calls == hist.calls

InsertOrder(op) ==
    CASE op = "insert_chat" -> 1
      [] op = "insert_contacts" -> 2
      [] op = "insert_participants" -> 3
      [] op = "insert_messages" -> 4

NeedsRow(call) == call.op \in {"insert_participants", "insert_messages"}

(* C3: the write calls of one on_merge_chat come in the order insert_chat,
   insert_contacts, insert_participants, insert_messages, and every
   insert_participants and insert_messages call finds the row of the
   conversation in the target. *)
C3_MergeChatCallOrder ==
    /\ \A i, j \in 1..Len(Calls) :
          i < j => InsertOrder(Calls[i].op) < InsertOrder(Calls[j].op)
    /\ \A i \in 1..Len(Calls) : NeedsRow(Calls[i]) => Calls[i].exists

(* C4: in every on_merge_chat, a retry after a failed insert_chat included,
   insert_participants and insert_messages are called only for a conversation
   whose row the target holds at the time of the call. *)
C4_InsertOnlyIntoExistingChat ==
    \A i \in 1..Len(Calls) :
        Calls[i].op \in {"insert_participants", "insert_messages"} => Calls[i].exists

(* C5 as claimed: every participant handed to insert_participants is a contact
   of the target when the call is made. *)
C5_ParticipantsAreContacts ==
    \A i \in 1..Len(Calls) :
        Calls[i].op = "insert_participants" => Calls[i].who \subseteq Calls[i].known

(* C5: every participant handed to insert_participants is a contact of the
   target when the call is made (the contacts of the preceding insert_contacts
   included), or the account owner, or somebody the source database has no
   contact row for. *)
C5_ParticipantsAreContactsOrHaveNone ==
    \A i \in 1..Len(Calls) :
        Calls[i].op = "insert_participants" =>
            Calls[i].who \subseteq (Calls[i].known \cup {Owner} \cup Calls[i].stubs)

(* a merge that inserted a contact and then made its owner a participant *)
C5_Witness ==
    /\ hist.last = "on_merge_chat"
    /\ \E i, j \in 1..Len(Calls) :
          /\ i < j
          /\ Calls[i].op = "insert_contacts"
          /\ Calls[j].op = "insert_participants"
          /\ Calls[i].who \cap Calls[j].who # {}
          /\ ~(Calls[i].who \subseteq Calls[i].known)

(* C6: no step removes a conversation, a message, a participant or a contact
   from either database. *)
C6_MergeNeverRemoves ==
    [][\A h \in Handles :
          /\ db[h].convs \subseteq db'[h].convs
          /\ db[h].msgs \subseteq db'[h].msgs
          /\ db[h].parts \subseteq db'[h].parts
          /\ db[h].contacts \subseteq db'[h].contacts]_vars

(* a merge-all has completed and left messages, participants and contacts *)
C6_Witness ==
    /\ hist.last = "merge_done"
    /\ \E h \in Handles :
          /\ Cardinality(db[h].msgs) >= 2
          /\ Cardinality(db[h].contacts) >= 2
          /\ Cardinality(db[h].parts) >= 3

(* what the claims about on_swap expect of a pair and of the lists *)
Flip(pair) == IF pair = <<>> THEN <<>> ELSE <<pair[2], pair[1]>>

FlipContacts(items) == [i \in 1..Len(items) |-> [items[i] EXCEPT !.c = Flip(@)]]

FlipGroups(items) == [i \in 1..Len(items) |-> [items[i] EXCEPT !.g = Flip(@)]]

Before == hist.snap[1]

SwapExchangesContacts ==
    /\ left = Other(Before.left)
    /\ con_diff = <<FlipContacts(Before.con_diff[2]), FlipContacts(Before.con_diff[1])>>
    /\ con_difflist = Flip(Before.con_difflist)

SwapExchangesGroups ==
    congroup_diff = <<FlipGroups(Before.congroup_diff[2]),
                      FlipGroups(Before.congroup_diff[1])>>

SwapExchangesChats ==
    /\ chats_differing = Flip(Before.chats_differing)
    /\ diffresults_info = Flip(Before.diffresults_info)

SwapExchangesMissing ==
    \A i \in Sides :
        \A n \in 1..(IF chats_differing = <<>> THEN 0 ELSE Len(chats_differing[i])) :
            LET k == chats_differing[i][n].diff
            IN /\ diffs[k].messages = Flip(Before.diffs[k].messages)
               /\ diffs[k].participants = Flip(Before.diffs[k].participants)

SwapExchangesRecords ==
    /\ Len(compared) = Len(Before.compared)
    /\ \A n \in 1..Len(compared) :
          /\ compared[n].c = Flip(Before.compared[n].c)
          /\ compared[n].messages = Flip(Before.compared[n].messages)

SwapExchangesLast ==
    \A n \in 1..Len(compared) : compared[n].last = Flip(Before.compared[n].last)

(* C7: right after on_swap the contact lists, the contact group lists, the
   differing-chat lists with their missing messages and participants, and the
   record, message count and last-message time of every compared
   conversation have changed sides. *)
C7_SwapExchangesEverySide ==
    hist.last = "on_swap" =>
        /\ SwapExchangesContacts
        /\ SwapExchangesGroups
        /\ SwapExchangesChats
        /\ SwapExchangesMissing
        /\ SwapExchangesRecords
        /\ SwapExchangesLast

(* C8: after two on_swap in a row the databases, the contact and contact
   group lists, chats_differing with its diffs, the counters and the compared
   conversations equal what they were before the first of the two. *)
C8_DoubleSwapRestores ==
    hist.swaps = 2 => Snapshot = hist.snap2[1]

(* two swaps in a row on a page with a completed scan that found differing
   chats, contacts and contact groups *)
C8_Witness ==
    /\ hist.swaps = 2
    /\ worker = <<>>
    /\ queue = <<>>
    /\ chats_differing # <<>>
    /\ \E i \in Sides : chats_differing[i] # <<>>
    /\ \E i \in Sides : con_diff[i] # <<>>
    /\ \E i \in Sides : congroup_diff[i] # <<>>
    /\ \E n \in 1..Len(compared) : compared[n].messages[1] # compared[n].messages[2]

RowIdentity(D, id) == {r.identity : r \in {q \in D.convs : q.id = id}}

PairedByIdentity ==
    \A n \in 1..Len(compared) :
        /\ compared[n].c[1] # None =>
              RowIdentity(db[Db1], compared[n].c[1]) = {compared[n].identity}
        /\ compared[n].c[2] # None =>
              RowIdentity(db[Db2], compared[n].c[2]) = {compared[n].identity}

LookupByIdentity == hist.lookup.found \subseteq {hist.lookup.chat}

RemovalByIdentity == hist.removal.found \subseteq {hist.removal.chat}

(* C9: load_data pairs the rows of one identity, the cached diff that
   on_change_list_chats picks belongs to the conversation that is opened, and
   on_merge_chat removes from chats_differing only the entry of the
   conversation that was merged. *)
C9_MatchByIdentity ==
    /\ hist.last = "load_data" => PairedByIdentity
    /\ LookupByIdentity
    /\ RemovalByIdentity

BothHoldEqual(ident) ==
    LET r1 == {r.id : r \in {q \in db[Db1].convs : q.identity = ident}}
        r2 == {r.id : r \in {q \in db[Db2].convs : q.identity = ident}}
    IN /\ r1 # {}
       /\ r2 # {}
       /\ \E i \in r1, j \in r2 :
             /\ MessageCount(db[Db1], i) = MessageCount(db[Db2], j)
             /\ LastMessageDatetime(db[Db1], i) = LastMessageDatetime(db[Db2], j)

(* C10: right after load_later_data a compared conversation is labelled
   "In sync" exactly when both databases hold a conversation of its identity
   with the same message count and the same last-message time. *)
C10_InSyncIffEqual ==
    hist.last = "load_later_data" =>
        \A n \in 1..Len(compared) :
            (compared[n].diff_status = DIFFSTATUS_IDENTICAL)
                <=> BothHoldEqual(compared[n].identity)

(* ---------------------------------------------------------------------- *)
(* Jobs of the worker thread and what the user can start meanwhile         *)
(* ---------------------------------------------------------------------- *)
(* a job is outstanding from worker_merge.work until its "done" result has
   been handled: it is in the worker, or results of it wait in the queue *)
JobsOfType(type) ==
    Cardinality({i \in 1..Len(worker) : worker[i].type = type})
    + Cardinality({i \in 1..Len(queue) : queue[i].type = type /\ queue[i].done})

MergeActive ==
    \/ \E i \in 1..Len(worker) : worker[i].type = "merge"
    \/ \E i \in 1..Len(queue) : queue[i].type = "merge"

ScanActive ==
    \/ \E i \in 1..Len(worker) : worker[i].type = "diff"
    \/ \E i \in 1..Len(queue) : queue[i].type = "diff"

(* C11: while a merge-all job is active, from the confirmed on_merge_all to
   the handling of its "done" result, nothing else can be started: no
   merge-all in either direction, no scan, no swap, no merge of a single
   conversation (nor opening one through a link of the diff overview) and no
   contacts merge. *)
C11_NothingStartsDuringMergeAll ==
    MergeActive =>
        /\ ~CanSwap
        /\ ~CanScanAll
        /\ \A source \in Sides :
              ~CanMergeAll(source) /\ ~CanMergeChat(source) /\ ~CanMergeContacts(source)
        /\ \A identity \in Identities : ~CanClickHtmldiff(identity)

(* C12: while a scan job is active, from on_scan_all to the handling of its
   "done" result, no merge can be started: no merge-all in either direction,
   no merge of a single conversation and no contacts merge. *)
C12_NoMergeStartsDuringScan ==
    ScanActive =>
        \A source \in Sides :
           ~CanMergeAll(source) /\ ~CanMergeChat(source) /\ ~CanMergeContacts(source)

(* the jobs handed to worker_merge.work whose "done" result is not handled yet *)
JobsOutstanding == JobsOfType("diff") + JobsOfType("merge")

(* C13: there are never two background jobs outstanding: while a scan or a
   merge-all job is outstanding, neither a scan nor a merge-all can be
   submitted, however clicks, timer callbacks and result events interleave. *)
C13_AtMostOneJob ==
    /\ JobsOutstanding <= 1
    /\ ScanActive \/ MergeActive =>
          ~CanScanAll /\ \A source \in Sides : ~CanMergeAll(source)

(* a job runs while a 20 ms timer of the previous merge-all is still pending
   and a result of the job waits to be handled *)
C13_Witness ==
    /\ JobsOutstanding = 1
    /\ later > 0
    /\ queue # <<>>

(* C14 as claimed: before any scan has been run, Scan is the only operation
   that can be started: neither merge-all nor the merge of a single
   conversation nor a contacts merge can be invoked. *)
C14_OnlyScanBeforeFirstScan ==
    chats_differing = <<>> =>
        \A source \in Sides :
           ~CanMergeAll(source) /\ ~CanMergeChat(source) /\ ~CanMergeContacts(source)

(* C14 as the code has it: before any scan has been run, merge-all cannot be
   invoked in either direction (the merge of a single conversation and the
   contacts merge do not wait for a scan). *)
C14_NoMergeAllBeforeFirstScan ==
    chats_differing = <<>> => \A source \in Sides : ~CanMergeAll(source)

(* contacts were merged before any scan, and Scan can be started *)
C14_Witness ==
    /\ chats_differing = <<>>
    /\ hist.last = "on_merge_contacts"
    /\ CanScanAll

(* C15: Swap can be invoked only when a completed scan result is available:
   the swap control is enabled neither before the first scan has finished nor
   while a scan is running nor while a merge-all is running. *)
C15_SwapOnlyWhenScanned ==
    CanSwap => chats_differing # <<>> /\ ~ScanActive /\ ~MergeActive

(* C16: once a scan has completed and no job is running, a new scan can be
   started, whatever the scan found. *)
C16_RescanAfterScan ==
    chats_differing # <<>> /\ ~ScanActive /\ ~MergeActive => CanScanAll

(* C17: after a conversation has been merged successfully from side s, by
   on_merge_chat or by a merge-all job that has completed, the comparison
   result chats_differing[s] holds no entry for that conversation. *)
C17_MergedLeavesResult ==
    /\ hist.last \in {"on_merge_chat", "on_merge_chat_raised", "merge_done", "merge_error"}
    /\ hist.merged.side # 0
    /\ chats_differing # <<>>
    => hist.merged.chats \cap EntryIdentities(chats_differing[hist.merged.side]) = {}

(* the items a step takes out of the contact list of side s *)
ItemsTaken(s) == Range(list_contacts[s]) \ Range(list_contacts'[s])

(* C18: after a successful on_merge_contacts from side s the merged contacts
   and contact groups are in none of the lists of what only side s has
   (con<s>diff, congroup<s>diff, con<s>difflist), so that a later merge-all
   from side s does not copy them again. *)
C18_MergedContactsLeaveLists ==
    [][hist'.last = "on_merge_contacts" =>
          \A s \in Sides : \A item \in ItemsTaken(s) :
             /\ item \notin Range(con_difflist'[s])
             /\ item.type = "Contact" =>
                   \A i \in 1..Len(con_diff'[s]) : con_diff'[s][i].identity # item.key
             /\ item.type = "Group" =>
                   \A i \in 1..Len(congroup_diff'[s]) : congroup_diff'[s][i].name # item.key]_vars

(* the database the last merge wrote to *)
MergeTarget == DbOf(Other(hist.merged.side))

(* C19: in every merge operation (one conversation, a batch of contacts, a
   merge-all job) clear_cache is invoked on the target database, after all
   insertions of the operation and before the page next reads conversation
   statistics from that database. *)
C19_CacheClearedAfterMerge ==
    /\ /\ hist.last \in {"on_merge_chat", "on_merge_chat_raised", "on_merge_contacts",
                         "merge_done", "merge_error"}
       /\ hist.merged.side # 0
       => MergeTarget \notin stale
    /\ hist.staleread = {}

(* C20: a merge-all job in which an error was reported is never presented as
   a success: the success outcome (gauge at 100 with "Merge completed.", the
   "merged to" page and the "Copied" message) is produced only for a job none
   of whose units has failed. *)
C20_ErrorIsNeverSuccess ==
    hist.last = "merge_done" => ~hist.failed

(* a job in which a unit failed has completed and was presented as an error *)
C20_Witness ==
    /\ hist.last = "merge_error"
    /\ hist.failed
    /\ hist.merged.side # 0

(* C21: when an insertion step of on_merge_chat or of on_merge_contacts has
   raised, it is the last step that was attempted (the steps after it are not
   tried), and is_merging is False afterwards. *)
C21_RaiseAbortsUnit ==
    hist.raised # "none" =>
        /\ hist.steps # <<>>
        /\ hist.steps[Len(hist.steps)] = hist.raised
        /\ \A i \in 1..(Len(hist.steps) - 1) : hist.steps[i] # hist.raised
        /\ ~is_merging

(* on_merge_chat has raised in insert_contacts, with insert_participants and
   possibly insert_messages still due *)
C21_Witness ==
    /\ hist.last = "on_merge_chat_raised"
    /\ hist.raised = "insert_contacts"
    /\ hist.steps = <<"insert_contacts">>
    /\ ~is_merging

(* ---------------------------------------------------------------------- *)
(* Databases and their consumers                                           *)
(* ---------------------------------------------------------------------- *)
(* the open pages that use the database of file f *)
PagesUsing(f) ==
    {p \in Pages : db_pages[p] = f \/ f \in Range(merger_pages[p])}

(* C22: a database is dropped from the table of open databases (and closed)
   only when no page is registered on it: every database an open page uses
   is in the table with exactly the open pages using it as consumers, and a
   step that closes a MergerPage unregisters the page from both of its
   databases and drops each of the two exactly when no other page is left
   registered on it, leaving every other database alone. *)
C22_ClosedOnlyWithoutConsumers ==
    [][/\ \A f \in Files : consumers'[f] = PagesUsing(f)'
       /\ \A f \in Files : consumers'[f] # {} => f \in dbs'
       /\ \A f \in dbs \ dbs' : consumers'[f] = {}
       /\ \A p \in Pages :
             IsMergerPage(p) /\ ~IsMergerPage(p)' =>
                \A f \in Files :
                   IF f \in Range(merger_pages[p])
                   THEN /\ consumers'[f] = consumers[f] \ {p}
                        /\ f \in dbs' <=> consumers[f] \ {p} # {}
                   ELSE consumers'[f] = consumers[f] /\ (f \in dbs' <=> f \in dbs)]_vars

(* a comparison page has been closed: one of its databases was closed with
   it, the other stays open for the pages still registered on it *)
C22_Witness ==
    /\ Cardinality(closing.page_dbs) = 2
    /\ Cardinality(closing.closed) = 1
    /\ \E f \in closing.page_dbs \ closing.closed : f \in dbs /\ consumers[f] # {}

(* ---------------------------------------------------------------------- *)
(* The contact lists of load_later_data                                    *)
(* ---------------------------------------------------------------------- *)
DiffIdentities(items) == {items[i].identity : i \in 1..Len(items)}

OnlyContacts(s) ==
    ContactIdentities(db[DbOf(s)]) \ ContactIdentities(db[DbOf(Other(s))])

(* C23: right after load_later_data con1diff holds exactly the contacts of
   the left database whose identity no contact of the right database has,
   every identity once, each item with a contact row of the left database and
   no row of the right one; con2diff likewise with the sides exchanged. *)
C23_ContactDiffExact ==
    hist.last = "load_later_data" =>
        \A s \in Sides :
           /\ DiffIdentities(con_diff[s]) = OnlyContacts(s)
           /\ Len(con_diff[s]) = Cardinality(OnlyContacts(s))
           /\ \A i \in 1..Len(con_diff[s]) :
                 /\ [id |-> con_diff[s][i].c[s], identity |-> con_diff[s][i].identity]
                        \in db[DbOf(s)].contacts
                 /\ con_diff[s][i].c[Other(s)] = None

(* load_later_data has run over databases that share a contact and differ in
   another *)
C23_Witness ==
    /\ hist.last = "load_later_data"
    /\ ContactIdentities(db[Db1]) \cap ContactIdentities(db[Db2]) # {}
    /\ \E s \in Sides : con_diff[s] # <<>>

(* the identities a members column names *)
MemberSet(members) == Range(members)

GroupNames1(items) == {items[i].name : i \in 1..Len(items)}

(* what the claim expects on the only-list of side s *)
OnlyGroups(s) ==
    {g.name : g \in {h \in db[DbOf(s)].groups :
        \A o \in db[DbOf(Other(s))].groups :
            o.name = h.name => MemberSet(o.members) # MemberSet(h.members)}}

(* C24: right after load_later_data a contact group of side s is in
   congroup<s>diff if and only if the other side has no group of its name or
   one whose member set differs: same-named groups with different member
   sets are on both lists, same-named groups with equal member sets on
   neither. *)
C24_GroupDiffByMemberSet ==
    hist.last = "load_later_data" =>
        \A s \in Sides : GroupNames1(congroup_diff[s]) = OnlyGroups(s)

(* C25: when on_merge_contacts has merged contact groups, every member of a
   merged group that the target had no contact for was in the list passed to
   insert_contacts, insert_contacts was called before replace_contactgroups,
   and afterwards every member of every merged group is a contact of the
   target. *)
C25_GroupMembersInserted ==
    (hist.last = "on_merge_contacts" /\ hist.unit.groups # <<>>) =>
        /\ \A i \in 1..Len(hist.unit.groups) :
              \A member \in split(hist.unit.groups[i].members) :
                  /\ member \notin hist.unit.before =>
                        \E j \in 1..Len(hist.unit.ids) : hist.unit.ids[j] = member
                  /\ member \in ContactIdentities(db[hist.unit.target])
        /\ hist.steps[Len(hist.steps)] = "replace_contactgroups"
        /\ hist.unit.ids # <<>> => hist.steps = <<"insert_contacts", "replace_contactgroups">>

C25_Witness ==
    /\ hist.last = "on_merge_contacts"
    /\ hist.steps = <<"insert_contacts", "replace_contactgroups">>
    /\ \E i \in 1..Len(hist.unit.groups) :
          \E member \in split(hist.unit.groups[i].members) :
              /\ member \notin hist.unit.before
              /\ member \in ContactIdentities(db[hist.unit.target])
(* C26: for a list of n missing-message ids the loop issues ceil(n/999)
   queries, each with between 1 and 999 parameters; the chunks are
   consecutive slices of the list that together hold every id exactly once,
   and the messages retrieved are exactly those with the listed ids. *)
RECURSIVE Flatten(_)
Flatten(chunks) == IF chunks = <<>> THEN <<>> ELSE Head(chunks) \o Flatten(Tail(chunks))

C26_ChunkedRetrieval ==
    resolved =>
        /\ 999 * Len(queries) >= Len(msg_ids)
        /\ 999 * Len(queries) < Len(msg_ids) + 999
        /\ \A k \in 1..Len(queries) : Len(queries[k]) \in 1..999
        /\ Flatten(queries) = msg_ids
        /\ Len(msg_rows) = Len(msg_ids)
        /\ {msg_rows[i].id : i \in 1..Len(msg_rows)} = Range(msg_ids)

C26_Witness ==
    /\ resolved
    /\ Len(msg_ids) = 2500
    /\ Len(queries) = 3
    /\ Len(queries[3]) = 502
    /\ msg_rows[2500].id = msg_ids[2500]
(* C27: for a progress result with zero-based unit index k over n units the
   percent shown is ceil(100 * (k + 1) / n) and lies in 0..100. *)
C27_PercentIsCeil ==
    gauge # NoGauge =>
        /\ gauge.value = PercentExact(progress.index + 1, progress.count)
        /\ gauge.value \in 0..100

(* the other half of C27 alone: the percent shown lies in 0..100 *)
C27_PercentInRange == gauge # NoGauge => gauge.value \in 0..100
(* C28: on_swap neither reads nor writes the contents of a database: the
   records of both databases and the state of their caches are the same
   before and after it, and only the handle called left changes. *)
C28_SwapTouchesNoDatabase ==
    [][hist'.last = "on_swap" =>
          /\ db' = db
          /\ stale' = stale
          /\ left' = Other(left)
          /\ hist'.staleread = {}]_vars

C28_Witness ==
    /\ hist.last = "on_swap"
    /\ left = 2
    /\ stale # {}
    /\ hist.snap[1].db = db
    /\ db[1] # db[2]
(* C29: every merge-all job that was started is followed by the handling of
   its last result, after which is_merging is False and the Scan and Swap
   controls and the Chats and Contacts pages are enabled, whether the job
   completed or ended with an error. *)
MergeEnded ==
    /\ hist.last \in {"merge_done", "merge_error"}
    /\ ~is_merging
    /\ enabled["scan"] /\ enabled["swap"]
    /\ enabled["page_chats"] /\ enabled["page_contacts"]

C29_MergeAllEnds == (hist.last = "on_merge_all") ~> MergeEnded

C29_Witness ==
    /\ MergeEnded
    /\ hist.last = "merge_error"
    /\ worker = <<>> /\ queue = <<>>

(* C30: during a scan, after each partial result has been handled, for each
   side i chats_differing[i] is the concatenation, in the order of arrival,
   of chats[i] of the results received so far in this scan, the running chat
   count of side i is len(chats_differing[i]), and the running message count
   of side i is the total number of missing messages of side i over those
   chats. *)
C30_ScanAccumulates ==
    hist.last \in {"on_scan_all_result", "scan_done"} =>
        \A i \in Sides :
            /\ chats_differing[i] = hist.received[i]
            /\ diffresults_info[i].chat = Len(chats_differing[i])
            /\ diffresults_info[i].message = MissingCount(hist.received[i], i)

ConvIdentities(D) == {c.identity : c \in D.convs}

UniqueIdentities(D) ==
    \A r1, r2 \in D.convs : r1.identity = r2.identity => r1 = r2

EntriesOf(ident) == {i \in 1..Len(compared) : compared[i].identity = ident}

(* C31: right after load_data, if no database holds two conversations of one
   identity, compared holds exactly one entry for every identity that has a
   conversation in either database and no other entry, and the c1 (c2) of an
   entry is not None exactly when the left (right) database has a
   conversation of the entry's identity. *)
C31_OneEntryPerIdentity ==
    (hist.last = "load_data" /\ UniqueIdentities(db[Db1]) /\ UniqueIdentities(db[Db2])) =>
        /\ \A ident \in ConvIdentities(db[Db1]) \cup ConvIdentities(db[Db2]) :
              Cardinality(EntriesOf(ident)) = 1
        /\ \A i \in 1..Len(compared) :
              /\ compared[i].identity \in
                    ConvIdentities(db[Db1]) \cup ConvIdentities(db[Db2])
              /\ compared[i].c[1] # None <=>
                    compared[i].identity \in ConvIdentities(db[Db1])
              /\ compared[i].c[2] # None <=>
                    compared[i].identity \in ConvIdentities(db[Db2])

(* load_data has paired a conversation of both databases and listed one that
   only the right database holds *)
C31_Witness ==
    /\ hist.last = "load_data"
    /\ \E i, j \in 1..Len(compared) :
          /\ compared[i].c[1] # None /\ compared[i].c[2] # None
          /\ compared[j].c[1] = None /\ compared[j].c[2] # None

MissingRows(Dsrc, Dtgt, ident) ==
    {m \in MsgsOf(Dsrc, ident) : m.sig \notin {n.sig : n \in MsgsOf(Dtgt, ident)}}

(* a completed on_merge_chat from the left side of the conversation ident has
   left the left database alone and has added to the right one a row for
   every message that the right conversation lacked, no other row, and the
   participants that it lacked *)
CopiesLeftToRight(ident) ==
    LET src == db[Db1]
        tgt == db[Db2]
        added == db'[Db2].msgs \ tgt.msgs
        missing == MissingRows(src, tgt, ident)
    IN /\ db'[Db1] = src
       /\ added \subseteq MsgsOf(db'[Db2], ident)
       /\ {m.sig : m \in added} = {m.sig : m \in missing}
       /\ Cardinality(added) = Cardinality(missing)
       /\ PartsOf(db'[Db2], ident) = PartsOf(tgt, ident) \cup PartsOf(src, ident)

(* the open diff was opened before the last on_swap, or after it from the
   cached scan result *)
OpenedBeforeSwap == hist.last = "on_swap" /\ hist.swaps = 1

OpenedAfterSwap ==
    hist.last = "on_change_list_chats" /\ hist.lookup.found # {} /\ left = 2

(* C32: a completed on_merge_chat from the left side that follows one on_swap,
   with the diff opened before the swap or opened after it from the cached
   scan result, copies from the database now on the left into the database
   now on the right exactly the messages and participants that the right
   one lacks. *)
C32_MergeAfterSwap ==
    [][(/\ hist'.last = "on_merge_chat"
        /\ hist'.merged.side = 1
        /\ OpenedBeforeSwap \/ OpenedAfterSwap)
       => CopiesLeftToRight(compared[chat_diff].identity)]_vars

(* C33: an on_merge_all that the user declines leaves con1diff, con2diff,
   congroup1diff, congroup2diff and chats_differing as they were, at every
   such click. *)
C33_DeclinedMergeAllKeepsResult ==
    [][hist'.last = "on_merge_all_declined" =>
          /\ con_diff' = con_diff
          /\ congroup_diff' = congroup_diff
          /\ chats_differing' = chats_differing]_vars

(* a merge-all of contacts, a contact group with a member and a conversation
   was declined *)
C33_Witness ==
    /\ hist.last = "on_merge_all_declined"
    /\ \E s \in Sides :
          /\ enabled[IF s = 1 THEN "mergeall1" ELSE "mergeall2"]
          /\ con_diff[s] # <<>>
          /\ chats_differing[s] # <<>>
          /\ \E i \in 1..Len(congroup_diff[s]) : congroup_diff[s][i].members # <<>>

(* the diff objects that the entries of the cached scan result refer to *)
CachedKeys ==
    IF chats_differing = <<>> THEN {}
    ELSE UNION {{chats_differing[s][i].diff : i \in 1..Len(chats_differing[s])} :
                    s \in Sides}

(* C34: on_change_list_chats leaves the cached scan result as it was: the
   entries of chats_differing and, for every entry, the two lists of its
   diff, which hold the ids of the missing messages. *)
C34_OpeningKeepsScanResult ==
    [][hist'.last = "on_change_list_chats" =>
          /\ chats_differing' = chats_differing
          /\ \A k \in CachedKeys : diffs'[k] = diffs[k]]_vars

(* C35: a completed on_merge_chat from side s sets the message count and the
   last-message time of the other side t of the open compared entry to the
   statistics of the conversation in the target database as it is after the
   merge, and leaves the count and the time of side s as they were. *)
C35_MergeRefreshesTargetSide ==
    [][hist'.last = "on_merge_chat" =>
          LET s == hist'.merged.side
              t == Other(s)
              old == compared[chat_diff]
              c == compared'[chat_diff]
              D == db'[DbOf(t)]
          IN /\ c.messages[t] = MessageCount(D, c.c[t])
             /\ c.last[t] = LastMessageDatetime(D, c.c[t])
             /\ c.messages[s] = old.messages[s]
             /\ c.last[s] = old.last[s]]_vars

Distinct(seq) == \A i, j \in 1..Len(seq) : i # j => seq[i] # seq[j]

(* C36: the list of contacts that on_merge_contacts passes to insert_contacts
   and the one that on_merge_all hands to the merge job hold every identity
   at most once. *)
C36_ContactsPassedOnce ==
    /\ Distinct(hist.unit.ids)
    /\ \A k \in 1..Len(worker) :
          worker[k].type = "merge" =>
              Distinct([i \in 1..Len(worker[k].contacts) |->
                            worker[k].contacts[i].identity])

(* ---------------------------------------------------------------------- *)
(* C37: closing a MergerPage stops and joins its thread before the        *)
(* databases of the page are released                                     *)
(* ---------------------------------------------------------------------- *)
WorkerSteps == {"worker_scan_step", "worker_scan_done", "worker_merge_contacts",
                "worker_merge_step", "worker_merge_done"}

(* the thread of the page has run a unit of one of its jobs *)
WorkerStepped ==
    /\ worker # <<>>
    /\ worker' # worker
    /\ merger_pages' = merger_pages
    /\ hist'.last \in WorkerSteps

(* the page still holds both of its databases: it is registered as their
   consumer and they are open *)
HoldsDatabases(page) ==
    /\ IsMergerPage(page)
    /\ \A f \in Range(merger_pages[page]) : f \in dbs /\ page \in consumers[f]

(* C37: a unit of work of the page's thread runs only while the page holds
   its databases: once on_close_page has unregistered the page from them, and
   closed those nobody else uses, the thread runs nothing more. *)
C37_NoWorkerStepAfterRelease ==
    [][WorkerStepped => HoldsDatabases(ThisPage)]_vars

(* the page was closed while its thread held an unfinished job, its
   databases were closed with it, and the thread holds nothing any more *)
C37_Witness ==
    /\ closing.running
    /\ closing.closed = {"f1", "f2"}
    /\ ~IsMergerPage(ThisPage)
    /\ worker = <<>>

(* ---------------------------------------------------------------------- *)
(* C38: one comparison page per pair of databases                         *)
(* ---------------------------------------------------------------------- *)
(* C38: no two open MergerPages compare the same two databases, whichever
   is left and whichever right on either page, and the page that
   compare_databases selects instead of opening one is an open page over the
   two files it was called with. *)
C38_OnePagePerPair ==
    /\ \A p, q \in Pages :
          IsMergerPage(p) /\ IsMergerPage(q)
          /\ Range(PageDbs(p)) = Range(PageDbs(q)) => p = q
    /\ closing.found # <<>> =>
          /\ IsMergerPage(closing.found[1])
          /\ Range(PageDbs(closing.found[1])) = {closing.found[2], closing.found[3]}

(* the page over f1 and f2 was swapped, so that f2 is its left database, and
   compare_databases, called with f1 as the left file and f2 as the right
   one while there was room for another page, selected it *)
C38_Witness ==
    /\ left = 2
    /\ PageDbs(ThisPage) = <<"f2", "f1">>
    /\ closing.found = <<ThisPage, "f1", "f2">>
    /\ FreePages # {}

(* ---------------------------------------------------------------------- *)
(* C39: the page becomes closable whether its loading succeeds or raises  *)
(* ---------------------------------------------------------------------- *)
(* C39: the open MergerPage eventually has ready_to_close set, whether
   load_data and load_later_data succeed or raise. *)
C39_EventuallyClosable ==
    IsMergerPage(ThisPage) ~> ThisPage \in ready_to_close

(* load_data has raised, load_later_data was never scheduled, and the page
   is closable *)
C39_Witness ==
    /\ pc = "failed"
    /\ hist.last = "load_data_error"
    /\ later = 0
    /\ ThisPage \in ready_to_close

(* ---------------------------------------------------------------------- *)
(* C40: the count shown in the message of the scan                        *)
(* ---------------------------------------------------------------------- *)
(* C40: the message of the scan for the result with zero-based index k over
   n compared conversations reads "k + 1 of n", and the number it shows is
   never more than n. *)
C40_ScanMessageCount ==
    gauge.name = "gauge_scan" =>
        /\ gauge.n = progress.count
        /\ gauge.x = progress.index + 1
        /\ gauge.x <= gauge.n

(* the same for the message of the merge, which holds *)
C40_MergeMessageCount ==
    gauge.name = "gauge_merge" =>
        /\ gauge.n = progress.count
        /\ gauge.x = progress.index + 1
        /\ gauge.x <= gauge.n

====
